---- MODULE Spec2Model ----
(***************************************************************************)
(* Model of loadbalancer-manager-haproxy: the reconciliation Manager       *)
(* (Run, ProcessMsg, loadbalancerTargeted, updateConfigToLatest,           *)
(* waitForDataPlaneReady, mergeConfig) and the event Subscriber            *)
(* (Subscribe, Listen, listen) together with the broker, the desired-state *)
(* service and the data plane as nondeterministic environments.            *)
(***************************************************************************)
EXTENDS Integers, Sequences, FiniteSets, TLC

VARIABLES
    ManagedLBID,            \* Manager.ManagedLBID
    DataPlaneClient,        \* Manager.DataPlaneClient is set (non-nil)
    LBClient,               \* Manager.LBClient is set (non-nil)
    SubscriberSet,          \* Manager.Subscriber is set (non-nil)
    currentConfig,          \* Manager.currentConfig
    overlapped,             \* <<t, d>>: the write of thread t, still at the assignment of
                            \* currentConfig, overlapped a write of document d that is over
    msgHandler,             \* Subscriber.msgHandler is registered
    maxProcessMsgAttempts,  \* Subscriber.maxProcessMsgAttempts
    changeChannels,         \* Subscriber.changeChannels: the subscribed channels, by topic
    queue,                  \* messages waiting in each channel
    redeliver,              \* messages the broker will deliver again, per channel
    closed,                 \* which of the channels the broker has closed
    proc,                   \* "running", "fatal" (Logger.Fatal) or "returned" (Run returned)
    runErr,                 \* the value Run returned
    pc,                     \* position of every thread (0 = Run, topic = its reader)
    gateI,                  \* loop counter of waitForDataPlaneReady
    cur,                    \* message a reader is handling
    lb,                     \* updateConfigToLatest local: GetLoadBalancer response
    cfg,                    \* updateConfigToLatest local: parsed/merged configuration
    err,                    \* error result of the running call of each thread
    trace,                  \* outbound calls of the thread's current handler/reconcile call
    called,                 \* names of the outbound calls ever made by the process
    runLog,                 \* milestones Run has passed, in order
    applied,                \* document the data plane is running
    published,              \* number of messages the broker has published
    tMsg,                   \* input of the loadbalancerTargeted check
    tResult,                \* its result
    gFn,                    \* the readiness wait under check: the Manager's or the Client's
    gRetries,               \* its retries argument
    gCancelled,             \* the context passed to it is cancelled
    gPolls,                 \* the APIIsReady calls it made, in order
    gResult,                \* <<>> while it runs, then <<the error it returned>>
    gAt,                    \* where its iteration stands: "loop" (top) or "default" (select passed)
    mLB,                    \* the desired state handed to the merge under check
    mFamily,                \* address family the inventory holds for that load balancer's ports
    mOut,                   \* <<>> before the merge, then <<its result>>
    mNext,                  \* where updateConfigToLatest goes after that merge
    inventory,              \* desired state the inventory service holds (AnyState: unconstrained)
    faults,                 \* outbound calls may fail
    natsConn,               \* NatsClient.conn: "nil", "open" or "closed"
    natsSubs,               \* NatsClient.subscriptions: each "valid" or "invalid"
    closeResults,           \* what the calls of NatsClient.Close returned, in order
    closeAt,                \* 0, or the index the running Close has reached in c.subscriptions
    cliReply,               \* what the data plane answers to the CheckConfig request under check
    cliResult               \* <<>> before that CheckConfig call, then <<the error it returned>>

vars == <<ManagedLBID, DataPlaneClient, LBClient, SubscriberSet, currentConfig, overlapped,
          msgHandler, maxProcessMsgAttempts, changeChannels, queue, redeliver, closed, proc, runErr,
          pc, gateI, cur, lb, cfg, err, trace, called, runLog, applied, published,
          tMsg, tResult, gFn, gRetries, gCancelled, gPolls, gResult, gAt,
          mLB, mFamily, mOut, mNext, inventory, faults,
          natsConn, natsSubs, closeResults, closeAt, cliReply, cliResult>>

(***************************************************************************)
(* Bounds                                                                  *)
(***************************************************************************)
NumTopics == 2          \* subscribed topics (one reader each)
MaxMsgs == 1            \* messages the broker publishes
MaxDeliveries == 2      \* largest delivery count the broker reaches
MaxAttempts == 2        \* largest configured max-msg-process-attempts
MaxAdditional == 2      \* length of AdditionalSubjectIDs

\* program constant
dataPlaneAPIRetryLimit == 10

Topics == 1..NumTopics
Main == 0
Threads == {Main} \cup Topics

Err(name) == [error |-> name, label |-> ""]
Nil == Err("nil")
NoMsg == [id |-> 0]
NoCfg == <<>>                \* the empty string: no document

(***************************************************************************)
(* Identifiers and change messages                                         *)
(***************************************************************************)
IDs == {"loadbal-A", "loadbal-B", "loadprt-X"}
ManagedIDs == {"", "loadbal-A"}
EventTypes == {"create", "update", "delete", "other"}

SeqsUpTo(S, n) == UNION {[1..k -> S] : k \in 0..n}

\* events.ChangeMessage
ChangeMessages ==
    [SubjectID : IDs, AdditionalSubjectIDs : SeqsUpTo(IDs, MaxAdditional), EventType : EventTypes]

\* a payload either unmarshals into a ChangeMessage or fails to
Malformed == [malformed |-> TRUE]
Payloads == ChangeMessages \cup {Malformed}

\* the payloads the broker publishes in the concurrent specification
BrokerPayloads ==
    {Malformed} \cup
    {m \in ChangeMessages :
        \/ m = [SubjectID |-> "loadprt-X", AdditionalSubjectIDs |-> <<"loadbal-A">>,
                 EventType |-> "update"]
        \/ m = [SubjectID |-> "loadbal-B", AdditionalSubjectIDs |-> <<"loadprt-X">>,
                 EventType |-> "delete"]
        \/ m = [SubjectID |-> "loadbal-A", AdditionalSubjectIDs |-> <<>>,
                 EventType |-> "other"]}

\* events.UnmarshalChangeMessage: the error result
UnmarshalFails(payload) == payload = Malformed

\* Manager.loadbalancerTargeted: the loop over AdditionalSubjectIDs, from index i
RECURSIVE additionalTargeted(_, _, _)
additionalTargeted(managed, subjects, i) ==
    IF i > Len(subjects) THEN FALSE
    ELSE IF subjects[i] = managed THEN TRUE
    ELSE additionalTargeted(managed, subjects, i + 1)

loadbalancerTargeted_SubjectOnly(managed, msg) ==
    msg.SubjectID = managed

\* Manager.loadbalancerTargeted
loadbalancerTargeted(managed, msg) ==
    IF msg.SubjectID = managed THEN TRUE
    ELSE additionalTargeted(managed, msg.AdditionalSubjectIDs, 1)

(***************************************************************************)
(* Desired state (lbapi.GetLoadBalancer) and the configuration document    *)
(***************************************************************************)
Origin(id, target, port, active) ==
    [ID |-> id, Target |-> target, PortNumber |-> port, Active |-> active]
Pool(origins) == [Origins |-> origins]
Port(id, number, pools) == [ID |-> id, Number |-> number, Pools |-> pools]
LoadBalancer(ports) == [Ports |-> ports]

LBEmpty == LoadBalancer(<<>>)
LBOne ==
    LoadBalancer(<<Port("loadprt-1", 22,
        <<Pool(<<Origin("loadogn-1", "1.2.3.4", 2222, TRUE),
                 Origin("loadogn-2", "4.3.2.1", 2222, FALSE)>>)>>)>>)
LBTwo ==
    LoadBalancer(<<Port("loadprt-2", 443, <<Pool(<<Origin("loadogn-1", "1.2.3.4", 8443, TRUE)>>)>>),
                   Port("loadprt-1", 80, <<>>)>>)
LBDup ==
    LoadBalancer(<<Port("loadprt-1", 22, <<>>), Port("loadprt-1", 23, <<>>)>>)

\* the desired states the inventory service answers with
DesiredSet == {LBEmpty, LBOne, LBDup}

\* the inventory's content is left open: GetLoadBalancer answers with any desired state
AnyState == [Ports |-> <<>>, any |-> TRUE]

\* section labels in the order the parser's String() sorts them
LabelOrder == <<"fallback", "loadprt-1", "loadprt-2", "stats">>
LabelRank(l) == CHOOSE i \in 1..Len(LabelOrder) : LabelOrder[i] = l

\* parser.New(options.Path(m.BaseCfgPath)): the parsed base template, sections by label
BaseCfg ==
    [frontends |-> [l \in {"stats"} |-> [bind |-> <<[family |-> "", port |-> 8404]>>, use_backend |-> <<>>]],
     backends  |-> [l \in {"fallback"} |-> [server |-> <<>>]]]

NoParser == [nilParser |-> TRUE]

SectionExists_Never(sections, label) == FALSE

\* cfg.SectionsCreate: fails when a section of that type has the label already
SectionExists(sections, label) == label \in DOMAIN sections
SectionsCreate(sections, label, empty) ==
    [l \in DOMAIN sections \cup {label} |-> IF l = label THEN empty ELSE sections[l]]

\* fmt.Sprintf("%s@:%d", "ipv4", p.Node.Number)
BindPath(p) == [family |-> "ipv4", port |-> p.Number]

\* srvAddr: "%s:%d check port %d", with " disabled" appended for an inactive origin
SrvAddr(o) ==
    [target |-> o.Target, port |-> o.PortNumber, checkPort |-> o.PortNumber,
     disabled |-> ~o.Active]

\* types.Server{Name: origin.Node.ID, Address: srvAddr}
Server(o) == [Name |-> o.ID, Address |-> SrvAddr(o)]

RECURSIVE OriginServers_SkipInactive(_, _)
OriginServers_SkipInactive(origins, i) ==
    IF i > Len(origins) THEN <<>>
    ELSE (IF origins[i].Active THEN <<Server(origins[i])>> ELSE <<>>)
            \o OriginServers_SkipInactive(origins, i + 1)

\* the inner loops of mergeConfig: one server per origin, pool by pool
RECURSIVE OriginServers(_, _)
OriginServers(origins, i) ==
    IF i > Len(origins) THEN <<>>
    ELSE <<Server(origins[i])>> \o OriginServers(origins, i + 1)

PoolServers_FirstPoolOnly(pools, i) ==
    IF i > Len(pools) THEN <<>> ELSE OriginServers(pools[i].Origins, 1)

RECURSIVE PoolServers(_, _)
PoolServers(pools, i) ==
    IF i > Len(pools) THEN <<>>
    ELSE OriginServers(pools[i].Origins, 1) \o PoolServers(pools, i + 1)

FrontendSection_NoUseBackend(p) == [bind |-> <<BindPath(p)>>, use_backend |-> <<>>]

\* the frontend of a port: Insert of its bind, Set of its use_backend
FrontendSection(p) == [bind |-> <<BindPath(p)>>, use_backend |-> <<p.ID>>]

\* the backend of a port: one Set of a server per origin
BackendSection(p) == [server |-> PoolServers(p.Pools, 1)]

\* newLabelError(label, err, labelErr)
newLabelError(label, e) == [error |-> e, label |-> label]

\* mergeConfig: the loop over lb.LoadBalancer.Ports.Edges, from index i
RECURSIVE mergePorts(_, _, _)
mergePorts(c, ports, i) ==
    IF i > Len(ports) THEN [err |-> Nil, cfg |-> c]
    ELSE LET p == ports[i] IN
        IF SectionExists(c.frontends, p.ID)
        THEN [err |-> newLabelError(p.ID, "errFrontendSectionLabelFailure"), cfg |-> NoParser]
        ELSE IF SectionExists(c.backends, p.ID)
        THEN [err |-> newLabelError(p.ID, "errBackendSectionLabelFailure"), cfg |-> NoParser]
        ELSE mergePorts(
                [frontends |-> SectionsCreate(c.frontends, p.ID, FrontendSection(p)),
                 backends  |-> SectionsCreate(c.backends, p.ID, BackendSection(p))],
                ports, i + 1)

\* mergeConfig(cfg, lb)
mergeConfig(c, l) == mergePorts(c, l.Ports, 1)

\* labels of a section map in sorted order
RECURSIVE SortedLabels(_)
SortedLabels(S) ==
    IF S = {} THEN <<>>
    ELSE LET m == CHOOSE x \in S : \A y \in S : LabelRank(x) <= LabelRank(y)
         IN <<m>> \o SortedLabels(S \ {m})

RenderSections(kind, sections) ==
    LET ls == SortedLabels(DOMAIN sections)
    IN [i \in 1..Len(ls) |-> [section |-> kind, label |-> ls[i], body |-> sections[ls[i]]]]

\* cfg.String(): the document text, frontends then backends, each sorted by label
CfgString(c) == RenderSections("frontend", c.frontends) \o RenderSections("backend", c.backends)

(***************************************************************************)
(* Decisions of the Subscriber and the Manager                             *)
(***************************************************************************)
\* the sections of one kind of a document, by label
SectionsOf(doc, kind) ==
    LET ks == {k \in 1..Len(doc) : doc[k].section = kind}
    IN [l \in {doc[k].label : k \in ks} |->
            doc[CHOOSE k \in ks : doc[k].label = l].body]

TemplateFor_Current(current) ==
    IF current = <<>> THEN BaseCfg
    ELSE [frontends |-> SectionsOf(current, "frontend"),
          backends  |-> SectionsOf(current, "backend")]

\* updateConfigToLatest: parser.New(options.Path(m.BaseCfgPath)) parses the base template
\* file anew, whatever the snapshot holds
TemplateFor(current) == BaseCfg

errLoadBalancerIDParamInvalid == Err("errLoadBalancerIDParamInvalid")
ErrDataPlaneNotReady == Err("ErrDataPlaneNotReady")
ErrMsgHandlerNotRegistered == Err("ErrMsgHandlerNotRegistered")

Call(op, doc, ok) == [op |-> op, doc |-> doc, ok |-> ok]

\* a delivered message: msg.Deliveries() is its deliveries field
Message(id, payload, n) == [id |-> id, payload |-> payload, deliveries |-> n]

Disposition_TermOnDecodeError(max, deliveries, e) ==
    IF e # Nil
    THEN IF e = Err("unmarshal") \/ (max # 0 /\ deliveries + 1 > max) THEN "Term" ELSE "Nak"
    ELSE "Ack"

Disposition_ZeroIsLimit(max, deliveries, e) ==
    IF e # Nil
    THEN IF deliveries + 1 > max THEN "Term" ELSE "Nak"
    ELSE "Ack"

Disposition_NakAlways(max, deliveries, e) == IF e # Nil THEN "Nak" ELSE "Ack"

Disposition_AckOnError(max, deliveries, e) ==
    IF e # Nil /\ (max = 0 \/ deliveries + 1 <= max) THEN "Nak" ELSE "Ack"

Disposition_Exceeds(max, deliveries, e) ==
    IF e # Nil
    THEN IF max # 0 /\ deliveries > max THEN "Term" ELSE "Nak"
    ELSE "Ack"

\* Subscriber.listen: what is issued for a message once the handler returned e
Disposition(max, deliveries, e) ==
    IF e # Nil
    THEN IF max # 0 /\ deliveries + 1 > max THEN "Term" ELSE "Nak"
    ELSE "Ack"

AfterDisposition_ExitOnHandlerError(e, callOk) == IF e # Nil THEN "exited" ELSE "done"

AfterDisposition_ExitOnCallError(e, callOk) == IF callOk THEN "done" ELSE "exited"

\* Subscriber.listen: where the reader goes once Ack, Nak or Term returned; a failure of
\* the handler or of the call is logged and the loop body ends
AfterDisposition(e, callOk) == "done"

HandlerMissing_Never(h) == FALSE

\* Subscriber.Listen: s.msgHandler == nil
HandlerMissing(h) == ~h

AllReadersDone_Any(channels, p) == \E k \in 1..Len(channels) : p[channels[k]] = "exited"

\* Subscriber.Listen: wg.Wait() returns once every reader has called wg.Done()
AllReadersDone(channels, p) == \A k \in 1..Len(channels) : p[channels[k]] = "exited"

SubscribeChannels_AppendAlways(channels, ch, ok) == Append(channels, ch)

\* Subscriber.Subscribe: s.changeChannels after SubscribeChanges returned channel ch or failed
SubscribeChannels(channels, ch, ok) == IF ok THEN Append(channels, ch) ELSE channels

ProcessMsgEntry_DecodeErrorIgnored(managed, payload) ==
    IF UnmarshalFails(payload) THEN "ignore"
    ELSE IF payload.EventType \in {"create", "delete", "update"}
         THEN IF ~loadbalancerTargeted(managed, payload) THEN "drop" ELSE "reconcile"
         ELSE "ignore"

ProcessMsgEntry_ReconcileUnknown(managed, payload) ==
    IF UnmarshalFails(payload) THEN "unmarshal_error"
    ELSE IF ~loadbalancerTargeted(managed, payload) THEN "drop" ELSE "reconcile"

ProcessMsgEntry_NoTargetCheck(managed, payload) ==
    IF UnmarshalFails(payload) THEN "unmarshal_error"
    ELSE IF payload.EventType \in {"create", "delete", "update"} THEN "reconcile"
         ELSE "ignore"

\* Manager.ProcessMsg up to its first outbound call
ProcessMsgEntry(managed, payload) ==
    IF UnmarshalFails(payload) THEN "unmarshal_error"
    ELSE IF payload.EventType \in {"create", "delete", "update"}
         THEN IF ~loadbalancerTargeted(managed, payload) THEN "drop" ELSE "reconcile"
         ELSE "ignore"

idInvalid_Never(managed) == FALSE

\* updateConfigToLatest: the guard on the managed identifier
idInvalid(managed) == managed = ""

\* updateConfigToLatest: where it goes after mergeConfig returned e
AfterMerge(e) == IF e = Nil THEN "upd_check" ELSE "upd_ret"

AfterCheckConfig_Ignored(ok) == "upd_post"

\* updateConfigToLatest: where it goes after CheckConfig returned
AfterCheckConfig(ok) == IF ok THEN "upd_post" ELSE "upd_ret"

AfterPostConfig_Ignored(ok) == "upd_store"

\* updateConfigToLatest: where it goes after PostConfig returned
AfterPostConfig(ok) == IF ok THEN "upd_store" ELSE "upd_ret"

\* updateConfigToLatest: the value stored in m.currentConfig
StoredConfig(c) == CfgString(c)

CollaboratorMissing_NoSubscriberCheck(d, l, sub) == ~d \/ ~l

\* Run: the three nil checks, each ending in Logger.Fatal
CollaboratorMissing(d, l, sub) == ~d \/ ~l \/ ~sub

LoopContinues_Inclusive(i, retries) == i <= retries

\* waitForDataPlaneReady: the loop condition `i < retries`
LoopContinues(i, retries) == i < retries

AfterGate_Ignored(e) == "upd_begin"

AfterGate_SkipUpdate(e) == IF e # Nil THEN "fatal" ELSE "listen"

\* Run: what follows waitForDataPlaneReady
AfterGate(e) == IF e # Nil THEN "fatal" ELSE "upd_begin"

\* Run: what follows the initial updateConfigToLatest
AfterInitialUpdate(e) == IF e # Nil THEN "fatal" ELSE "listen"

(***************************************************************************)
(* Initial state: the Manager and the Subscriber as constructed by run()   *)
(***************************************************************************)
\* no stand-alone readiness wait is under check
GateIdle ==
    /\ gFn = "none"
    /\ gRetries = 0
    /\ gCancelled = FALSE
    /\ gPolls = <<>>
    /\ gResult = <<>>
    /\ gAt = "loop"

\* no NatsClient is under check
NatsIdle ==
    /\ natsConn = "nil"
    /\ natsSubs = <<>>
    /\ closeResults = <<>>
    /\ closeAt = 0

\* an http reply with a status code; a request that failed in transport
Reply(status) == [failed |-> FALSE, status |-> status, cause |-> "none"]
TransportFailure(cause) == [failed |-> TRUE, status |-> 0, cause |-> cause]

\* no stand-alone CheckConfig call is under check
ClientIdle ==
    /\ cliReply = Reply(0)
    /\ cliResult = <<>>

\* the environment is unconstrained: any response, any failure
EnvOpen ==
    /\ inventory = AnyState
    /\ faults = TRUE
    /\ NatsIdle
    /\ ClientIdle

\* no stand-alone merge is under check
MergeIdle ==
    /\ mLB = LBEmpty
    /\ mFamily = "ipv4"
    /\ mOut = <<>>
    /\ mNext = "none"

Init ==
    /\ ManagedLBID \in ManagedIDs
    /\ DataPlaneClient \in BOOLEAN
    /\ LBClient \in BOOLEAN
    /\ SubscriberSet \in BOOLEAN
    /\ currentConfig = NoCfg
    /\ overlapped = {}
    /\ msgHandler \in BOOLEAN
    /\ maxProcessMsgAttempts \in 0..MaxAttempts
    /\ changeChannels = <<>>
    /\ queue = [t \in Topics |-> <<>>]
    /\ redeliver = [t \in Topics |-> <<>>]
    /\ closed = [t \in Topics |-> FALSE]
    /\ proc = "running"
    /\ runErr = Nil
    /\ pc = [t \in Threads |-> IF t = Main THEN (IF SubscriberSet THEN "subscribe" ELSE "run")
                                ELSE "off"]
    /\ gateI = 0
    /\ cur = [t \in Threads |-> NoMsg]
    /\ lb = [t \in Threads |-> LBEmpty]
    /\ cfg = [t \in Threads |-> NoParser]
    /\ err = [t \in Threads |-> Nil]
    /\ trace = [t \in Threads |-> <<>>]
    /\ called = {}
    /\ runLog = <<>>
    /\ applied = NoCfg
    /\ published = 0
    /\ tMsg = Malformed
    /\ tResult = <<>>
    /\ GateIdle
    /\ MergeIdle
    /\ EnvOpen

gVars == <<gFn, gRetries, gCancelled, gPolls, gResult, gAt>>
mVars == <<mLB, mFamily, mOut, mNext>>
eVars == <<inventory, faults>>
nVars == <<natsConn, natsSubs, closeResults, closeAt>>
cVars == <<cliReply, cliResult>>
tVars == <<tMsg, tResult, gVars, mVars, eVars, nVars, cVars>>
snapshot == <<currentConfig, overlapped>>
mgrFields == <<ManagedLBID, DataPlaneClient, LBClient, SubscriberSet>>
subFields == <<msgHandler, maxProcessMsgAttempts>>
brokerVars == <<queue, redeliver, closed, published>>
updLocals == <<lb, cfg, err, trace>>

(***************************************************************************)
(* cmd run(): Subscriber.Subscribe for every configured topic              *)
(***************************************************************************)
\* where Run goes next; Logger.Fatal ends the process
RunGoto(next) ==
    IF next = "fatal"
    THEN /\ proc' = "fatal"
         /\ pc' = pc
    ELSE /\ proc' = proc
         /\ pc' = [pc EXCEPT ![Main] = next]

\* entry of a handler or reconcile call of thread t
Begin(t) ==
    /\ trace' = [trace EXCEPT ![t] = <<>>]
    /\ err' = [err EXCEPT ![t] = Nil]

\* the locals of a finished call go out of scope
Clear(t) ==
    /\ lb' = [lb EXCEPT ![t] = LBEmpty]
    /\ cfg' = [cfg EXCEPT ![t] = NoParser]
    /\ err' = [err EXCEPT ![t] = Nil]
    /\ trace' = [trace EXCEPT ![t] = <<>>]

\* Subscriber.Subscribe(topic), called by run() once per topic before Manager.Run
Subscribe ==
    /\ proc = "running"
    /\ pc[Main] = "subscribe"
    /\ \E ok \in BOOLEAN :
        /\ changeChannels' = SubscribeChannels(changeChannels, Len(changeChannels) + 1, ok)
        /\ IF ok
           THEN /\ pc' = [pc EXCEPT ![Main] =
                          IF Len(changeChannels) + 1 = NumTopics THEN "run" ELSE "subscribe"]
                /\ UNCHANGED <<proc, runErr>>
           ELSE /\ proc' = "returned"
                /\ runErr' = Err("subscribe")
                /\ pc' = pc
    /\ UNCHANGED <<mgrFields, snapshot, subFields, brokerVars, gateI, cur, updLocals,
                   called, runLog, applied, tVars>>

(***************************************************************************)
(* Manager.Run                                                             *)
(***************************************************************************)
\* Run: the three nil checks on the collaborators
RunStart ==
    /\ proc = "running"
    /\ pc[Main] = "run"
    /\ IF CollaboratorMissing(DataPlaneClient, LBClient, SubscriberSet)
       THEN /\ RunGoto("fatal")
            /\ runLog' = Append(runLog, "collaborator_missing")
       ELSE /\ RunGoto("gate")
            /\ runLog' = runLog
    /\ gateI' = 0
    /\ UNCHANGED <<mgrFields, snapshot, subFields, changeChannels, brokerVars, runErr, cur,
                   updLocals, called, applied, tVars>>

\* waitForDataPlaneReady: one iteration of the polling loop
GatePoll ==
    /\ proc = "running"
    /\ pc[Main] = "gate"
    /\ LoopContinues(gateI, dataPlaneAPIRetryLimit)
    /\ called' = called \cup {"APIIsReady"}
    /\ \E ready \in BOOLEAN :
        IF ready
        THEN /\ RunGoto(AfterGate(Nil))
             /\ runLog' = Append(runLog, "gate_ok")
             /\ gateI' = gateI
             /\ Begin(Main)
        ELSE /\ gateI' = gateI + 1
             /\ UNCHANGED <<pc, proc, runLog, err, trace>>
    /\ UNCHANGED <<mgrFields, snapshot, subFields, changeChannels, brokerVars, runErr, cur,
                   lb, cfg, applied, tVars>>

\* waitForDataPlaneReady: the loop ran out and ErrDataPlaneNotReady is returned to Run
GateExhausted ==
    /\ proc = "running"
    /\ pc[Main] = "gate"
    /\ ~LoopContinues(gateI, dataPlaneAPIRetryLimit)
    /\ RunGoto(AfterGate(ErrDataPlaneNotReady))
    /\ runLog' = Append(runLog, "gate_failed")
    /\ Begin(Main)
    /\ UNCHANGED <<mgrFields, snapshot, subFields, changeChannels, brokerVars, runErr, gateI,
                   cur, lb, cfg, called, applied, tVars>>

(***************************************************************************)
(* Manager.updateConfigToLatest, run by Run (thread Main) or by a reader   *)
(***************************************************************************)
\* whether an outbound call succeeds
Outcomes == IF faults THEN BOOLEAN ELSE {TRUE}

\* what GetLoadBalancer answers with
Responses == IF inventory = AnyState THEN DesiredSet ELSE {inventory}

\* the identifier guard and parser.New on the base template
UpdBegin(t) ==
    /\ proc = "running"
    /\ pc[t] = "upd_begin"
    /\ runLog' = IF t = Main THEN Append(runLog, "upd_start") ELSE runLog
    /\ gateI' = IF t = Main THEN 0 ELSE gateI    \* the gate's counter is out of scope
    /\ IF idInvalid(ManagedLBID)
       THEN /\ err' = [err EXCEPT ![t] = errLoadBalancerIDParamInvalid]
            /\ pc' = [pc EXCEPT ![t] = "upd_ret"]
            /\ UNCHANGED <<proc, cfg>>
       ELSE \E readable \in Outcomes :
            IF readable
            THEN /\ cfg' = [cfg EXCEPT ![t] = TemplateFor(currentConfig)]
                 /\ pc' = [pc EXCEPT ![t] = "upd_fetch"]
                 /\ UNCHANGED <<proc, err>>
            ELSE /\ proc' = "fatal"
                 /\ UNCHANGED <<pc, cfg, err>>
    /\ UNCHANGED <<mgrFields, snapshot, subFields, changeChannels, brokerVars, runErr, cur, lb,
                   trace, called, applied, tVars>>

\* a GetLoadBalancer call with its identifier argument
FetchCall(id, ok) == [op |-> "GetLoadBalancer", doc |-> NoCfg, ok |-> ok, id |-> id]

FetchID_FromMessage(managed, msg) ==
    IF msg = NoMsg THEN managed ELSE msg.payload.SubjectID

\* updateConfigToLatest: the identifier passed to GetLoadBalancer is m.ManagedLBID,
\* whatever message the thread is handling
FetchID(managed, msg) == managed

\* m.LBClient.GetLoadBalancer(m.Context, m.ManagedLBID.String())
UpdFetch(t) ==
    /\ proc = "running"
    /\ pc[t] = "upd_fetch"
    /\ called' = called \cup {"GetLoadBalancer"}
    /\ \E ok \in Outcomes, desired \in Responses :
        /\ trace' = [trace EXCEPT ![t] = Append(@, FetchCall(FetchID(ManagedLBID, cur[t]), ok))]
        /\ IF ok
           THEN /\ lb' = [lb EXCEPT ![t] = desired]
                /\ pc' = [pc EXCEPT ![t] = "upd_merge"]
                /\ err' = err
           ELSE /\ err' = [err EXCEPT ![t] = Err("GetLoadBalancer")]
                /\ pc' = [pc EXCEPT ![t] = "upd_ret"]
                /\ lb' = lb
    /\ UNCHANGED <<mgrFields, snapshot, subFields, changeChannels, brokerVars, proc, runErr,
                   gateI, cur, cfg, runLog, applied, tVars>>

\* cfg, err = mergeConfig(cfg, lb)
UpdMerge(t) ==
    /\ proc = "running"
    /\ pc[t] = "upd_merge"
    /\ LET r == mergeConfig(cfg[t], lb[t]) IN
        /\ trace' = [trace EXCEPT ![t] = Append(@, Call("mergeConfig", NoCfg, r.err = Nil))]
        /\ cfg' = [cfg EXCEPT ![t] = r.cfg]
        /\ err' = [err EXCEPT ![t] = r.err]
        /\ pc' = [pc EXCEPT ![t] = AfterMerge(r.err)]
    /\ UNCHANGED <<mgrFields, snapshot, subFields, changeChannels, brokerVars, proc, runErr,
                   gateI, cur, lb, called, runLog, applied, tVars>>

\* m.DataPlaneClient.CheckConfig(m.Context, cfg.String())
UpdCheck(t) ==
    /\ proc = "running"
    /\ pc[t] = "upd_check"
    /\ called' = called \cup {"CheckConfig"}
    /\ \E ok \in Outcomes :
        /\ trace' = [trace EXCEPT ![t] = Append(@, Call("CheckConfig", CfgString(cfg[t]), ok))]
        /\ err' = [err EXCEPT ![t] = IF ok THEN @ ELSE Err("CheckConfig")]
        /\ pc' = [pc EXCEPT ![t] = AfterCheckConfig(ok)]
    /\ UNCHANGED <<mgrFields, snapshot, subFields, changeChannels, brokerVars, proc, runErr,
                   gateI, cur, lb, cfg, runLog, applied, tVars>>

\* m.DataPlaneClient.PostConfig(m.Context, cfg.String())
UpdPost(t) ==
    /\ proc = "running"
    /\ pc[t] = "upd_post"
    /\ called' = called \cup {"PostConfig"}
    /\ \E ok \in Outcomes :
        /\ trace' = [trace EXCEPT ![t] = Append(@, Call("PostConfig", CfgString(cfg[t]), ok))]
        /\ err' = [err EXCEPT ![t] = IF ok THEN @ ELSE Err("PostConfig")]
        /\ applied' = IF ok THEN CfgString(cfg[t]) ELSE applied
        /\ pc' = [pc EXCEPT ![t] = AfterPostConfig(ok)]
    /\ UNCHANGED <<mgrFields, snapshot, subFields, changeChannels, brokerVars, proc, runErr,
                   gateI, cur, lb, cfg, runLog, tVars>>

\* the other threads that stand at the same unsynchronized assignment
Racing(t) == {u \in Threads \ {t} : pc[u] = "upd_store"}

\* what a string variable can hold when writes to it race: the pointer of one value
\* with the length of another
Torn == <<[section |-> "torn", label |-> "torn", body |-> [server |-> <<>>]]>>

\* m.currentConfig is a plain two-word field written with no lock by whichever
\* goroutine reconciles. A write that overlaps no other stores its value. A write that
\* overlaps others leaves its own value or one of theirs, or a mix of two when they
\* differ, also once all of them are over; after a write that is over, the field may
\* also keep what it holds
StoreOutcomes(t) ==
    LET own == StoredConfig(cfg[t])
        before == {p[2] : p \in {q \in overlapped : q[1] = t}}
        others == {StoredConfig(cfg[u]) : u \in Racing(t)} \cup before
    IN {own} \cup others
            \cup (IF others \ {own} # {} THEN {Torn} ELSE {})
            \cup (IF before # {} THEN {currentConfig} ELSE {})

\* m.currentConfig = cfg.String(): the assignment of t is over; the assignments of the
\* threads still standing at it have overlapped it
UpdStore(t) ==
    /\ proc = "running"
    /\ pc[t] = "upd_store"
    /\ currentConfig' \in StoreOutcomes(t)
    /\ overlapped' = {p \in overlapped : p[1] # t}
                        \cup {<<u, StoredConfig(cfg[t])>> : u \in Racing(t)}
    /\ trace' = [trace EXCEPT ![t] = Append(@, Call("store", StoredConfig(cfg[t]), TRUE))]
    /\ pc' = [pc EXCEPT ![t] = "upd_ret"]
    /\ UNCHANGED <<mgrFields, subFields, changeChannels, brokerVars, proc, runErr, gateI, cur, lb,
                   cfg, err, called, runLog, applied, tVars>>

HandlerResult_Swallowed(e) == Nil

\* ProcessMsg: what it returns when updateConfigToLatest returned e
HandlerResult(e) == e

\* updateConfigToLatest returns err[t] to its caller: Run or ProcessMsg
UpdReturn(t) ==
    /\ proc = "running"
    /\ pc[t] = "upd_ret"
    /\ IF t = Main
       THEN /\ RunGoto(AfterInitialUpdate(err[Main]))
            /\ runLog' = Append(runLog, IF err[Main] = Nil THEN "upd_ok" ELSE "upd_failed")
            /\ err' = err
       ELSE /\ pc' = [pc EXCEPT ![t] = "dispose"]
            /\ err' = [err EXCEPT ![t] = HandlerResult(err[t])]
            /\ UNCHANGED <<proc, runLog>>
    /\ UNCHANGED <<mgrFields, snapshot, subFields, changeChannels, brokerVars, runErr, gateI,
                   cur, lb, cfg, trace, called, applied, tVars>>

(***************************************************************************)
(* Subscriber.Listen and its readers (Subscriber.listen)                   *)
(***************************************************************************)
RECURSIVE SeqToSet(_)
SeqToSet(q) == IF q = <<>> THEN {} ELSE {Head(q)} \cup SeqToSet(Tail(q))

\* Run calls m.Subscriber.Listen(): the handler check and one goroutine per channel
Listen ==
    /\ proc = "running"
    /\ pc[Main] = "listen"
    /\ called' = called \cup {"Listen"}
    /\ runLog' = Append(runLog, "listen")
    /\ IF HandlerMissing(msgHandler)
       THEN /\ proc' = "returned"
            /\ runErr' = ErrMsgHandlerNotRegistered
            /\ pc' = pc
       ELSE /\ pc' = [t \in Threads |->
                        IF t = Main THEN "wait"
                        ELSE IF t \in SeqToSet(changeChannels) THEN "recv" ELSE pc[t]]
            /\ UNCHANGED <<proc, runErr>>
    /\ Clear(Main)
    /\ UNCHANGED <<mgrFields, snapshot, subFields, changeChannels, brokerVars, gateI, cur,
                   applied, tVars>>

\* wg.Wait() is over: Listen returns nil and so does Run
ListenReturn ==
    /\ proc = "running"
    /\ pc[Main] = "wait"
    /\ AllReadersDone(changeChannels, pc)
    /\ proc' = "returned"
    /\ runErr' = Nil
    /\ UNCHANGED <<mgrFields, snapshot, subFields, changeChannels, brokerVars, pc, gateI, cur,
                   updLocals, called, runLog, applied, tVars>>

ReaderFree_WhileHandling(p) == p \notin {"off", "exited"}

\* listen: the reader is at the head of its range loop, the previous body is over
ReaderFree(p) == p = "recv"

\* listen: `for msg := range messages` yields the next message
Receive(t) ==
    /\ proc = "running"
    /\ ReaderFree(pc[t])
    /\ queue[t] # <<>>
    /\ cur' = [cur EXCEPT ![t] = Head(queue[t])]
    /\ queue' = [queue EXCEPT ![t] = Tail(@)]
    /\ pc' = [pc EXCEPT ![t] = "handler"]
    /\ Begin(t)
    /\ UNCHANGED <<mgrFields, snapshot, subFields, changeChannels, redeliver, closed,
                   published, proc, runErr, gateI, lb, cfg, called, runLog, applied,
                   tVars>>

\* listen: the channel is closed and drained, the reader exits
ReaderExit(t) ==
    /\ proc = "running"
    /\ pc[t] = "recv"
    /\ queue[t] = <<>>
    /\ closed[t]
    /\ pc' = [pc EXCEPT ![t] = "exited"]
    /\ UNCHANGED <<mgrFields, snapshot, subFields, changeChannels, brokerVars, proc, runErr,
                   gateI, cur, updLocals, called, runLog, applied, tVars>>

\* s.msgHandler(msg), i.e. Manager.ProcessMsg, up to its first outbound call
ProcessMsg(t) ==
    /\ proc = "running"
    /\ pc[t] = "handler"
    /\ LET d == ProcessMsgEntry(ManagedLBID, cur[t].payload) IN
        /\ trace' = [trace EXCEPT ![t] = Append(@, Call("ProcessMsg", NoCfg, TRUE))]
        /\ err' = [err EXCEPT ![t] = IF d = "unmarshal_error" THEN Err("unmarshal") ELSE Nil]
        /\ pc' = [pc EXCEPT ![t] = IF d = "reconcile" THEN "upd_begin" ELSE "dispose"]
    /\ UNCHANGED <<mgrFields, snapshot, subFields, changeChannels, brokerVars, proc, runErr,
                   gateI, cur, lb, cfg, called, runLog, applied,
                   tVars>>

\* listen: Ack, Nak(defaultNakDelay) or Term after the handler returned; the call itself may fail
Dispose(t) ==
    /\ proc = "running"
    /\ pc[t] = "dispose"
    /\ LET d == Disposition(maxProcessMsgAttempts, cur[t].deliveries, err[t]) IN
       \E callOk \in Outcomes :
        /\ trace' = [trace EXCEPT ![t] = Append(@, Call(d, NoCfg, callOk))]
        /\ redeliver' = [redeliver EXCEPT ![t] =
                            IF (d = "Nak" \/ ~callOk) /\ cur[t].deliveries < MaxDeliveries
                            THEN Append(@, cur[t]) ELSE @]
        /\ pc' = [pc EXCEPT ![t] = AfterDisposition(err[t], callOk)]
    /\ UNCHANGED <<mgrFields, snapshot, subFields, changeChannels, queue, closed, published,
                   proc, runErr, gateI, cur, lb, cfg, err, called, runLog,
                   applied, tVars>>

\* listen: the loop body is over, back to the range over the channel
LoopBack(t) ==
    /\ proc = "running"
    /\ pc[t] = "done"
    /\ pc' = [pc EXCEPT ![t] = "recv"]
    /\ cur' = [cur EXCEPT ![t] = NoMsg]
    /\ Clear(t)
    /\ UNCHANGED <<mgrFields, snapshot, subFields, changeChannels, brokerVars, proc, runErr,
                   gateI, called, runLog, applied, tVars>>

(***************************************************************************)
(* Environment: the broker                                                 *)
(***************************************************************************)
\* The environment acts once the readiness gate is passed: an event during start-up
\* commutes with the steps of the gate, so it is taken as happening right after it.
Started == pc[Main] \notin {"subscribe", "run", "gate"}

\* the broker delivers a new change message on a subscribed topic (first delivery: 1)
Publish ==
    /\ proc = "running"
    /\ Started
    /\ published < MaxMsgs
    /\ \E t \in SeqToSet(changeChannels), payload \in BrokerPayloads :
        /\ ~closed[t]
        /\ queue' = [queue EXCEPT ![t] = Append(@, Message(published + 1, payload, 1))]
    /\ published' = published + 1
    /\ UNCHANGED <<mgrFields, snapshot, subFields, changeChannels, redeliver, closed, proc,
                   runErr, pc, gateI, cur, updLocals, called, runLog, applied, tVars>>

\* the broker delivers again a message that was not acknowledged or terminated
Redeliver ==
    /\ proc = "running"
    /\ \E t \in Topics :
        /\ redeliver[t] # <<>>
        /\ ~closed[t]
        /\ LET m == Head(redeliver[t]) IN
            queue' = [queue EXCEPT ![t] = Append(@, Message(m.id, m.payload, m.deliveries + 1))]
        /\ redeliver' = [redeliver EXCEPT ![t] = Tail(@)]
    /\ UNCHANGED <<mgrFields, snapshot, subFields, changeChannels, closed, published, proc,
                   runErr, pc, gateI, cur, updLocals, called, runLog, applied, tVars>>

\* shutdown: the connection closes a subscribed channel
CloseChannel ==
    /\ proc = "running"
    /\ Started
    /\ \E t \in SeqToSet(changeChannels) :
        /\ ~closed[t]
        /\ closed' = [closed EXCEPT ![t] = TRUE]
    /\ UNCHANGED <<mgrFields, snapshot, subFields, changeChannels, queue, redeliver,
                   published, proc, runErr, pc, gateI, cur, updLocals, called, runLog, applied, tVars>>

Next ==
    \/ Subscribe
    \/ RunStart
    \/ GatePoll
    \/ GateExhausted
    \/ \E t \in Threads : UpdBegin(t)
    \/ \E t \in Threads : UpdFetch(t)
    \/ \E t \in Threads : UpdMerge(t)
    \/ \E t \in Threads : UpdCheck(t)
    \/ \E t \in Threads : UpdPost(t)
    \/ \E t \in Threads : UpdStore(t)
    \/ \E t \in Threads : UpdReturn(t)
    \/ Listen
    \/ ListenReturn
    \/ \E t \in Topics : Receive(t)
    \/ \E t \in Topics : ReaderExit(t)
    \/ \E t \in Topics : ProcessMsg(t)
    \/ \E t \in Topics : Dispose(t)
    \/ \E t \in Topics : LoopBack(t)
    \/ Publish
    \/ Redeliver
    \/ CloseChannel

Spec == Init /\ [][Next]_vars

\* a reader goroutine runs on: its next step, whichever it is, is eventually taken
ReaderStep(t) ==
    \/ Receive(t) \/ ReaderExit(t) \/ ProcessMsg(t)
    \/ UpdBegin(t) \/ UpdFetch(t) \/ UpdMerge(t) \/ UpdCheck(t) \/ UpdPost(t) \/ UpdStore(t)
    \/ UpdReturn(t)
    \/ Dispose(t) \/ LoopBack(t)

\* The program's goroutines are scheduled fairly, every outbound call returns, and the
\* broker delivers what it holds for redelivery; publishing and closing stay unforced.
SpecLive ==
    /\ Spec
    /\ \A t \in Topics : WF_vars(ReaderStep(t))
    /\ WF_vars(ListenReturn)
    /\ WF_vars(Redeliver)

(***************************************************************************)
(* loadbalancerTargeted on its own, over all bounded messages              *)
(***************************************************************************)
InitTargeted ==
    /\ ManagedLBID \in IDs \cup {""}
    /\ tMsg \in ChangeMessages
    /\ tResult = <<>>
    /\ DataPlaneClient = TRUE
    /\ LBClient = TRUE
    /\ SubscriberSet = TRUE
    /\ currentConfig = NoCfg
    /\ overlapped = {}
    /\ msgHandler = TRUE
    /\ maxProcessMsgAttempts = 0
    /\ changeChannels = <<>>
    /\ queue = [t \in Topics |-> <<>>]
    /\ redeliver = [t \in Topics |-> <<>>]
    /\ closed = [t \in Topics |-> FALSE]
    /\ proc = "targeting"
    /\ runErr = Nil
    /\ pc = [t \in Threads |-> "off"]
    /\ gateI = 0
    /\ cur = [t \in Threads |-> NoMsg]
    /\ lb = [t \in Threads |-> LBEmpty]
    /\ cfg = [t \in Threads |-> NoParser]
    /\ err = [t \in Threads |-> Nil]
    /\ trace = [t \in Threads |-> <<>>]
    /\ called = {}
    /\ runLog = <<>>
    /\ applied = NoCfg
    /\ published = 0
    /\ GateIdle
    /\ MergeIdle
    /\ EnvOpen

\* a call of m.loadbalancerTargeted(&tMsg)
Targeted ==
    /\ proc = "targeting"
    /\ tResult = <<>>
    /\ tResult' = <<loadbalancerTargeted(ManagedLBID, tMsg)>>
    /\ UNCHANGED <<mgrFields, snapshot, subFields, changeChannels, brokerVars, proc, runErr,
                   pc, gateI, cur, updLocals, called, runLog, applied, tMsg, gVars, mVars,
                   eVars, nVars, cVars>>

NextTargeted == Targeted

SpecTargeted == InitTargeted /\ [][NextTargeted]_vars

(***************************************************************************)
(* The readiness wait on its own: Manager.waitForDataPlaneReady and        *)
(* dataplaneapi.Client.WaitForDataPlaneReady, for every bounded `retries`  *)
(***************************************************************************)
MaxRetries == 4         \* largest retries argument

WaitFns == {"Manager.waitForDataPlaneReady", "Client.WaitForDataPlaneReady"}

\* the Manager and the Subscriber are constructed and nothing runs
ManagerIdle ==
    /\ DataPlaneClient = TRUE
    /\ LBClient = TRUE
    /\ SubscriberSet = TRUE
    /\ currentConfig = NoCfg
    /\ overlapped = {}
    /\ msgHandler = TRUE
    /\ maxProcessMsgAttempts = 0
    /\ changeChannels = <<>>
    /\ queue = [t \in Topics |-> <<>>]
    /\ redeliver = [t \in Topics |-> <<>>]
    /\ closed = [t \in Topics |-> FALSE]
    /\ runErr = Nil
    /\ pc = [t \in Threads |-> "off"]
    /\ gateI = 0
    /\ cur = [t \in Threads |-> NoMsg]
    /\ lb = [t \in Threads |-> LBEmpty]
    /\ cfg = [t \in Threads |-> NoParser]
    /\ err = [t \in Threads |-> Nil]
    /\ trace = [t \in Threads |-> <<>>]
    /\ called = {}
    /\ runLog = <<>>
    /\ applied = NoCfg
    /\ published = 0

\* the same, and no other component is under check
ProgramIdle == ManagerIdle /\ EnvOpen

InitGate ==
    /\ ProgramIdle
    /\ ManagedLBID = "loadbal-A"
    /\ proc = "gating"
    /\ tMsg = Malformed
    /\ tResult = <<>>
    /\ gFn \in WaitFns
    /\ gRetries \in -1..MaxRetries
    /\ gCancelled = FALSE
    /\ gPolls = <<>>
    /\ gResult = <<>>
    /\ gAt = "loop"
    /\ MergeIdle

gateFrame ==
    UNCHANGED <<mgrFields, snapshot, subFields, changeChannels, brokerVars, proc, runErr, pc,
                cur, updLocals, called, runLog, applied, tMsg, tResult, gFn, gRetries, mVars,
                eVars, nVars, cVars>>

\* the Client's wait looks at ctx.Done() at the top of every iteration; the Manager's never does
ObservesContext(fn) == fn = "Client.WaitForDataPlaneReady"

\* APIIsReady(ctx): the request of a cancelled context fails, which reads as not ready
ReadyAnswers(cancelled) == IF cancelled THEN {FALSE} ELSE BOOLEAN

\* an interrupt cancels the context: run()'s signal goroutine calls cancel() at any
\* moment of the wait
WaitCancel ==
    /\ proc = "gating"
    /\ gResult = <<>>
    /\ ~gCancelled
    /\ gCancelled' = TRUE
    /\ UNCHANGED <<gateI, gPolls, gResult, gAt>>
    /\ gateFrame

\* Client.WaitForDataPlaneReady: `case <-ctx.Done(): return nil`
WaitContextDone ==
    /\ proc = "gating"
    /\ gResult = <<>>
    /\ gAt = "loop"
    /\ LoopContinues(gateI, gRetries)
    /\ ObservesContext(gFn)
    /\ gCancelled
    /\ gResult' = <<Nil>>
    /\ UNCHANGED <<gateI, gPolls, gCancelled, gAt>>
    /\ gateFrame

\* Client.WaitForDataPlaneReady: the select finds ctx.Done() not ready and takes `default`
WaitSelectDefault ==
    /\ proc = "gating"
    /\ gResult = <<>>
    /\ gAt = "loop"
    /\ LoopContinues(gateI, gRetries)
    /\ ObservesContext(gFn)
    /\ ~gCancelled
    /\ gAt' = "default"
    /\ UNCHANGED <<gateI, gPolls, gCancelled, gResult>>
    /\ gateFrame

\* the rest of one iteration: APIIsReady, then return nil or sleep and count. The
\* Manager's wait comes here from the loop condition, the Client's from `default`
WaitPoll ==
    /\ proc = "gating"
    /\ gResult = <<>>
    /\ LoopContinues(gateI, gRetries)
    /\ gAt = IF ObservesContext(gFn) THEN "default" ELSE "loop"
    /\ \E ready \in ReadyAnswers(gCancelled) :
        /\ gPolls' = Append(gPolls, [ready |-> ready, cancelled |-> gCancelled])
        /\ IF ready
           THEN /\ gResult' = <<Nil>>
                /\ gateI' = gateI
           ELSE /\ gResult' = gResult
                /\ gateI' = gateI + 1
    /\ gAt' = "loop"
    /\ UNCHANGED gCancelled
    /\ gateFrame

\* the loop is over: return ErrDataPlaneNotReady
WaitExhausted ==
    /\ proc = "gating"
    /\ gResult = <<>>
    /\ gAt = "loop"
    /\ ~LoopContinues(gateI, gRetries)
    /\ gResult' = <<ErrDataPlaneNotReady>>
    /\ UNCHANGED <<gateI, gPolls, gCancelled, gAt>>
    /\ gateFrame

NextGate ==
    \/ WaitCancel
    \/ WaitContextDone
    \/ WaitSelectDefault
    \/ WaitPoll
    \/ WaitExhausted

SpecGate == InitGate /\ [][NextGate]_vars

(***************************************************************************)
(* mergeConfig on its own: the desired state is grown node by node and     *)
(* then merged into a freshly parsed base template                         *)
(***************************************************************************)
MaxNodes == 6           \* ports + pools + origins of a desired state

\* port identifiers: two fresh ones, a frontend label and a backend label of the template
PortIDs == {"loadprt-1", "loadprt-2", "stats", "fallback"}
OriginIDs == {"loadogn-1", "loadogn-2"}
Families == {"ipv4", "ipv6"}

PortNumberOf(id) ==
    IF id = "loadprt-1" THEN 22 ELSE IF id = "loadprt-2" THEN 443
    ELSE IF id = "stats" THEN 8404 ELSE 80
TargetOf(id) == IF id = "loadogn-1" THEN "1.2.3.4" ELSE "4.3.2.1"
OriginPortOf(id) == IF id = "loadogn-1" THEN 2222 ELSE 222

RECURSIVE PoolsNodes(_, _)
PoolsNodes(pools, j) ==
    IF j > Len(pools) THEN 0 ELSE 1 + Len(pools[j].Origins) + PoolsNodes(pools, j + 1)

RECURSIVE PortsNodes(_, _)
PortsNodes(ports, i) ==
    IF i > Len(ports) THEN 0 ELSE 1 + PoolsNodes(ports[i].Pools, 1) + PortsNodes(ports, i + 1)

\* number of ports, pools and origins of a GetLoadBalancer response
NodeCount(l) == PortsNodes(l.Ports, 1)

InitMerge ==
    /\ ProgramIdle
    /\ ManagedLBID = "loadbal-A"
    /\ proc = "merging"
    /\ tMsg = Malformed
    /\ tResult = <<>>
    /\ GateIdle
    /\ mLB = LBEmpty
    /\ mFamily \in Families
    /\ mOut = <<>>
    /\ mNext = "none"

mergeFrame ==
    UNCHANGED <<mgrFields, snapshot, subFields, changeChannels, brokerVars, proc, runErr, pc,
                gateI, cur, updLocals, called, runLog, applied, tMsg, tResult, gVars, mFamily,
                eVars, nVars, cVars>>

Growing == proc = "merging" /\ mOut = <<>> /\ NodeCount(mLB) < MaxNodes

\* the response gets one more port edge
AddPort ==
    /\ Growing
    /\ \E id \in PortIDs :
        mLB' = LoadBalancer(Append(mLB.Ports, Port(id, PortNumberOf(id), <<>>)))
    /\ UNCHANGED <<mOut, mNext>>
    /\ mergeFrame

\* the last port gets one more pool
AddPool ==
    /\ Growing
    /\ mLB.Ports # <<>>
    /\ LET n == Len(mLB.Ports)
           p == mLB.Ports[n]
       IN mLB' = LoadBalancer([mLB.Ports EXCEPT ![n] =
                                  Port(p.ID, p.Number, Append(p.Pools, Pool(<<>>)))])
    /\ UNCHANGED <<mOut, mNext>>
    /\ mergeFrame

\* the last pool of the last port gets one more origin edge
AddOrigin ==
    /\ Growing
    /\ mLB.Ports # <<>>
    /\ mLB.Ports[Len(mLB.Ports)].Pools # <<>>
    /\ LET n == Len(mLB.Ports)
           p == mLB.Ports[n]
           k == Len(p.Pools)
       IN \E id \in OriginIDs, active \in BOOLEAN :
            mLB' = LoadBalancer([mLB.Ports EXCEPT ![n] =
                      Port(p.ID, p.Number,
                           [p.Pools EXCEPT ![k] =
                               Pool(Append(p.Pools[k].Origins,
                                           Origin(id, TargetOf(id), OriginPortOf(id), active)))])])
    /\ UNCHANGED <<mOut, mNext>>
    /\ mergeFrame

\* updateConfigToLatest: cfg, err = mergeConfig(cfg, lb) on the fresh template; if err != nil
Merge ==
    /\ proc = "merging"
    /\ mOut = <<>>
    /\ LET r == mergeConfig(BaseCfg, mLB) IN
        /\ mOut' = <<r>>
        /\ mNext' = AfterMerge(r.err)
    /\ UNCHANGED mLB
    /\ mergeFrame

NextMerge ==
    \/ AddPort
    \/ AddPool
    \/ AddOrigin
    \/ Merge

SpecMerge == InitMerge /\ [][NextMerge]_vars

(***************************************************************************)
(* Readers reconciling concurrently while the desired state changes: the   *)
(* program after a successful start-up, an inventory that notifies every   *)
(* change (and repeats notifications), and outbound calls that all succeed *)
(***************************************************************************)
MaxChanges == 3         \* change notifications the inventory sends

\* the desired states the inventory moves between
ConcDesired == {LBEmpty, LBOne}

\* the document a reconciliation of desired state l applies
DocOf(l) == CfgString(mergeConfig(BaseCfg, l).cfg)

\* the notification of a change of a port of the managed load balancer
PortChanged ==
    [SubjectID |-> "loadprt-X", AdditionalSubjectIDs |-> <<"loadbal-A">>, EventType |-> "update"]

\* Run has gated, reconciled the desired state of that moment and called Listen
InitConc ==
    /\ ManagedLBID = "loadbal-A"
    /\ DataPlaneClient = TRUE
    /\ LBClient = TRUE
    /\ SubscriberSet = TRUE
    /\ inventory \in ConcDesired
    /\ faults = FALSE
    /\ NatsIdle
    /\ ClientIdle
    /\ currentConfig = DocOf(inventory)
    /\ overlapped = {}
    /\ applied = DocOf(inventory)
    /\ msgHandler = TRUE
    /\ maxProcessMsgAttempts = 0
    /\ changeChannels = [t \in Topics |-> t]
    /\ queue = [t \in Topics |-> <<>>]
    /\ redeliver = [t \in Topics |-> <<>>]
    /\ closed = [t \in Topics |-> FALSE]
    /\ proc = "running"
    /\ runErr = Nil
    /\ pc = [t \in Threads |-> IF t = Main THEN "wait" ELSE "recv"]
    /\ gateI = 0
    /\ cur = [t \in Threads |-> NoMsg]
    /\ lb = [t \in Threads |-> LBEmpty]
    /\ cfg = [t \in Threads |-> NoParser]
    /\ err = [t \in Threads |-> Nil]
    /\ trace = [t \in Threads |-> <<>>]
    /\ called = {"Listen", "APIIsReady", "GetLoadBalancer", "CheckConfig", "PostConfig"}
    /\ runLog = <<"gate_ok", "upd_start", "upd_ok", "listen">>
    /\ published = 0
    /\ tMsg = Malformed
    /\ tResult = <<>>
    /\ GateIdle
    /\ MergeIdle

\* the inventory takes a desired state (a repeated notification keeps it) and the broker
\* delivers the notification on one of the subscribed topics
ChangeAndNotify ==
    /\ proc = "running"
    /\ inventory # AnyState
    /\ published < MaxChanges
    /\ \E new \in ConcDesired, t \in SeqToSet(changeChannels) :
        /\ inventory' = new
        /\ queue' = [queue EXCEPT ![t] = Append(@, Message(published + 1, PortChanged, 1))]
    /\ published' = published + 1
    /\ UNCHANGED <<mgrFields, snapshot, subFields, changeChannels, redeliver, closed, proc,
                   runErr, pc, gateI, cur, updLocals, called, runLog, applied, tMsg, tResult,
                   gVars, mVars, faults, nVars, cVars>>

NextConc ==
    \/ ChangeAndNotify
    \/ \E t \in Topics : Receive(t)
    \/ \E t \in Topics : ProcessMsg(t)
    \/ \E t \in Topics : UpdBegin(t)
    \/ \E t \in Topics : UpdFetch(t)
    \/ \E t \in Topics : UpdMerge(t)
    \/ \E t \in Topics : UpdCheck(t)
    \/ \E t \in Topics : UpdPost(t)
    \/ \E t \in Topics : UpdStore(t)
    \/ \E t \in Topics : UpdReturn(t)
    \/ \E t \in Topics : Dispose(t)
    \/ \E t \in Topics : LoopBack(t)

SpecConc == InitConc /\ [][NextConc]_vars

(***************************************************************************)
(* pubsub.NatsClient: Connect, Subscribe and Close over a nats connection  *)
(***************************************************************************)
MaxCloses == 3          \* calls of Close

ErrNatsConnClosed == Err("ErrNatsConnClosed")

\* nats.Subscription.Unsubscribe: it fails on a closed connection and on a
\* subscription that was already unsubscribed
Unsubscribe(conn, sub) ==
    IF conn # "open" THEN Err("nats.ErrConnectionClosed")
    ELSE IF sub # "valid" THEN Err("nats.ErrBadSubscription")
    ELSE Nil

\* NatsClient.Close: the connection after the loop returned no error
ClosedConn(conn) == IF conn = "open" THEN "closed" ELSE conn

\* the NatsClient is constructed with or without the WithMsgHandler option
InitNats ==
    /\ DataPlaneClient = TRUE
    /\ LBClient = TRUE
    /\ SubscriberSet = TRUE
    /\ currentConfig = NoCfg
    /\ overlapped = {}
    /\ msgHandler \in BOOLEAN
    /\ maxProcessMsgAttempts = 0
    /\ changeChannels = <<>>
    /\ queue = [t \in Topics |-> <<>>]
    /\ redeliver = [t \in Topics |-> <<>>]
    /\ closed = [t \in Topics |-> FALSE]
    /\ runErr = Nil
    /\ pc = [t \in Threads |-> "off"]
    /\ gateI = 0
    /\ cur = [t \in Threads |-> NoMsg]
    /\ lb = [t \in Threads |-> LBEmpty]
    /\ cfg = [t \in Threads |-> NoParser]
    /\ err = [t \in Threads |-> Nil]
    /\ trace = [t \in Threads |-> <<>>]
    /\ called = {}
    /\ runLog = <<>>
    /\ applied = NoCfg
    /\ published = 0
    /\ EnvOpen
    /\ ManagedLBID = "loadbal-A"
    /\ proc = "nats"
    /\ tMsg = Malformed
    /\ tResult = <<>>
    /\ GateIdle
    /\ MergeIdle

natsRest ==
    UNCHANGED <<mgrFields, snapshot, subFields, changeChannels, brokerVars, proc, pc,
                gateI, cur, updLocals, runLog, applied, tMsg, tResult, gVars, mVars, eVars,
                cVars>>

natsFrame == natsRest /\ UNCHANGED <<runErr, called>>

\* Close is called at shutdown: nothing connects or subscribes after the first Close
ShuttingDown == closeResults # <<>> \/ closeAt # 0

\* NatsClient.Connect: nats.Connect succeeds or fails
NatsConnect ==
    /\ proc = "nats"
    /\ ~ShuttingDown
    /\ natsConn = "nil"
    /\ \E ok \in BOOLEAN : natsConn' = IF ok THEN "open" ELSE natsConn
    /\ UNCHANGED <<natsSubs, closeResults, closeAt>>
    /\ natsFrame

\* NatsClient.Subscribe: refused without an open connection, else ChanSubscribe
NatsSubscribe ==
    /\ proc = "nats"
    /\ ~ShuttingDown
    /\ Len(natsSubs) < NumTopics
    /\ \E ok \in BOOLEAN :
        natsSubs' = IF natsConn = "open" /\ ok THEN Append(natsSubs, "valid") ELSE natsSubs
    /\ UNCHANGED <<natsConn, closeResults, closeAt>>
    /\ natsFrame

\* the connection gives up reconnecting and closes on its own
NatsConnLost ==
    /\ proc = "nats"
    /\ natsConn = "open"
    /\ natsConn' = "closed"
    /\ UNCHANGED <<natsSubs, closeResults, closeAt>>
    /\ natsFrame

\* NatsClient.Close is called: its loop over c.subscriptions starts
NatsClose ==
    /\ proc = "nats"
    /\ closeAt = 0
    /\ Len(closeResults) < MaxCloses
    /\ closeAt' = 1
    /\ UNCHANGED <<natsConn, natsSubs, closeResults>>
    /\ natsFrame

\* NatsClient.Close, one iteration: sub.Unsubscribe(); its error is returned at once
NatsCloseUnsubscribe ==
    /\ proc = "nats"
    /\ closeAt \in 1..Len(natsSubs)
    /\ LET e == Unsubscribe(natsConn, natsSubs[closeAt]) IN
        IF e # Nil
        THEN /\ closeResults' = Append(closeResults, e)
             /\ closeAt' = 0
             /\ natsSubs' = natsSubs
        ELSE /\ natsSubs' = [natsSubs EXCEPT ![closeAt] = "invalid"]
             /\ closeAt' = closeAt + 1
             /\ closeResults' = closeResults
    /\ UNCHANGED natsConn
    /\ natsFrame

\* NatsClient.Close after the loop: close an open connection, return nil
NatsCloseConn ==
    /\ proc = "nats"
    /\ closeAt = Len(natsSubs) + 1
    /\ natsConn' = ClosedConn(natsConn)
    /\ closeResults' = Append(closeResults, Nil)
    /\ closeAt' = 0
    /\ UNCHANGED natsSubs
    /\ natsFrame

\* NatsClient.Listen up to its loop: the checks of the connection and of the handler
ListenEntry(conn, handler) ==
    IF conn # "open" THEN ErrNatsConnClosed
    ELSE IF ~handler THEN ErrMsgHandlerNotRegistered
    ELSE Nil

\* a call of NatsClient.Listen: refused with an error, or entering its loop
NatsListen ==
    /\ proc = "nats"
    /\ "Listen" \notin called
    /\ called' = called \cup {"Listen"}
    /\ runErr' = ListenEntry(natsConn, msgHandler)
    /\ UNCHANGED nVars
    /\ natsRest

NextNats ==
    \/ NatsListen
    \/ NatsConnect
    \/ NatsSubscribe
    \/ NatsConnLost
    \/ NatsClose
    \/ NatsCloseUnsubscribe
    \/ NatsCloseConn

SpecNats == InitNats /\ [][NextNats]_vars

(***************************************************************************)
(* dataplaneapi.Client.CheckConfig: from the reply to the returned error   *)
(***************************************************************************)
StatusAccepted == 202
StatusBadRequest == 400
StatusUnauthorized == 401

\* the status codes of http, and the ways client.Do fails
StatusCodes == 100..599
TransportCauses == {"timeout", "refused"}
Replies == {Reply(n) : n \in StatusCodes} \cup {TransportFailure(c) : c \in TransportCauses}

ErrDataPlaneHTTPUnauthorized == Err("ErrDataPlaneHTTPUnauthorized")
ErrDataPlaneHTTPError == Err("ErrDataPlaneHTTPError")
ErrDataPlaneConfigInvalid == Err("ErrDataPlaneConfigInvalid")

\* the error of client.Do
TransportError(reply) == [error |-> "transport", label |-> reply.cause]

CheckConfigOutcome_NoBadRequestCase(reply) ==
    IF reply.failed THEN TransportError(reply)
    ELSE IF reply.status = StatusAccepted THEN Nil
    ELSE IF reply.status = StatusUnauthorized THEN ErrDataPlaneHTTPUnauthorized
    ELSE ErrDataPlaneHTTPError

\* Client.CheckConfig: the error of client.Do, else the switch on resp.StatusCode
CheckConfigOutcome(reply) ==
    IF reply.failed THEN TransportError(reply)
    ELSE IF reply.status = StatusAccepted THEN Nil
    ELSE IF reply.status = StatusUnauthorized THEN ErrDataPlaneHTTPUnauthorized
    ELSE IF reply.status = StatusBadRequest THEN ErrDataPlaneConfigInvalid
    ELSE ErrDataPlaneHTTPError

InitClient ==
    /\ ManagerIdle
    /\ inventory = AnyState
    /\ faults = TRUE
    /\ NatsIdle
    /\ cliReply \in Replies
    /\ cliResult = <<>>
    /\ ManagedLBID = "loadbal-A"
    /\ proc = "checking"
    /\ tMsg = Malformed
    /\ tResult = <<>>
    /\ GateIdle
    /\ MergeIdle

\* a call of Client.CheckConfig(ctx, config) answered with cliReply
CheckConfig ==
    /\ proc = "checking"
    /\ cliResult = <<>>
    /\ cliResult' = <<CheckConfigOutcome(cliReply)>>
    /\ UNCHANGED <<mgrFields, snapshot, subFields, changeChannels, brokerVars, proc, runErr,
                   pc, gateI, cur, updLocals, called, runLog, applied, tMsg, tResult, gVars,
                   mVars, eVars, nVars, cliReply>>

NextClient == CheckConfig

SpecClient == InitClient /\ [][NextClient]_vars

(***************************************************************************)
(* Properties                                                              *)
(***************************************************************************)
Ops(tr) == {tr[i].op : i \in DOMAIN tr}
Count(tr, S) == Cardinality({i \in DOMAIN tr : tr[i].op \in S})
LastOp(tr) == tr[Len(tr)].op

ReconcileCalls == {"GetLoadBalancer", "CheckConfig", "PostConfig"}
ReconcileSteps == ReconcileCalls \cup {"mergeConfig", "store"}
Dispositions == {"Ack", "Nak", "Term"}
UpdPcs == {"upd_begin", "upd_fetch", "upd_merge", "upd_check", "upd_post", "upd_store", "upd_ret"}

\* the managed identifier is the subject or one of the additional subjects
IsSubject(managed, msg) ==
    \/ managed = msg.SubjectID
    \/ \E i \in 1..Len(msg.AdditionalSubjectIDs) : msg.AdditionalSubjectIDs[i] = managed

\* C1: loadbalancerTargeted returns true exactly when the managed identifier equals
\* the message's SubjectID or occurs in its AdditionalSubjectIDs, and false otherwise.
C1_TargetedIffSubject ==
    tResult # <<>> => (tResult[1] <=> IsSubject(ManagedLBID, tMsg))

\* a message matched through the second additional subject
C1_Witness ==
    /\ tResult = <<TRUE>>
    /\ tMsg.SubjectID # ManagedLBID
    /\ Len(tMsg.AdditionalSubjectIDs) = 2
    /\ tMsg.AdditionalSubjectIDs[1] # ManagedLBID
    /\ tMsg.AdditionalSubjectIDs[2] = ManagedLBID

\* reader t holds a create/update/delete message that is not targeted at the managed id
Untargeted(t) ==
    /\ cur[t] # NoMsg
    /\ ~UnmarshalFails(cur[t].payload)
    /\ cur[t].payload.EventType \in {"create", "update", "delete"}
    /\ ~IsSubject(ManagedLBID, cur[t].payload)

\* C2: for a create, update or delete message that is not targeted at the managed load
\* balancer ProcessMsg returns success, makes no GetLoadBalancer, CheckConfig or
\* PostConfig call and does not write the last-applied-configuration snapshot.
C2_UntargetedNoEffect ==
    \A t \in Topics :
        Untargeted(t) =>
            /\ pc[t] \in {"handler", "dispose", "done"}
            /\ Ops(trace[t]) \cap ReconcileSteps = {}
            /\ (pc[t] \in {"dispose", "done"} => err[t] = Nil)

C2_Witness ==
    \E t \in Topics :
        /\ Untargeted(t)
        /\ pc[t] = "done"
        /\ LastOp(trace[t]) = "Ack"
        /\ currentConfig # NoCfg

\* reader t has finished a delivery whose handler failed, with a limit configured
FailedWithLimit(t) ==
    /\ pc[t] = "done"
    /\ err[t] # Nil
    /\ maxProcessMsgAttempts > 0

\* C3 as claimed: with a limit M > 0 a failed message is terminated exactly when its
\* delivery count, inclusive of the current delivery, exceeds M, and is negatively
\* acknowledged otherwise.
C3_TermIffCountExceeds ==
    \A t \in Topics :
        FailedWithLimit(t) =>
            /\ (LastOp(trace[t]) = "Term" <=> cur[t].deliveries > maxProcessMsgAttempts)
            /\ (cur[t].deliveries <= maxProcessMsgAttempts => LastOp(trace[t]) = "Nak")

\* C3 amended: with a limit M > 0 a failed message is terminated exactly when its
\* delivery count plus one exceeds M, that is from the M-th delivery on, and is
\* negatively acknowledged at every earlier delivery.
C3_TermIffNextExceeds ==
    \A t \in Topics :
        FailedWithLimit(t) =>
            /\ (LastOp(trace[t]) = "Term" <=> cur[t].deliveries + 1 > maxProcessMsgAttempts)
            /\ (cur[t].deliveries + 1 <= maxProcessMsgAttempts => LastOp(trace[t]) = "Nak")
            /\ Count(trace[t], {"Term", "Nak"}) = 1

\* a message terminated on the delivery whose count equals the limit
C3_Witness ==
    \E t \in Topics :
        /\ FailedWithLimit(t)
        /\ cur[t].deliveries = maxProcessMsgAttempts
        /\ LastOp(trace[t]) = "Term"

\* C4: for every message a reader takes the handler is invoked exactly once, then
\* exactly one of Ack, Nak and Term is issued, and Ack is issued exactly when the
\* handler returned success.
C4_OneHandlerOneDisposition ==
    \A t \in Topics :
        /\ pc[t] \in {"off", "recv", "exited"} => trace[t] = <<>>
        /\ pc[t] \in UpdPcs \cup {"dispose"} =>
            /\ Count(trace[t], {"ProcessMsg"}) = 1
            /\ trace[t][1].op = "ProcessMsg"
            /\ Count(trace[t], Dispositions) = 0
        /\ pc[t] = "done" =>
            /\ Count(trace[t], {"ProcessMsg"}) = 1
            /\ trace[t][1].op = "ProcessMsg"
            /\ Count(trace[t], Dispositions) = 1
            /\ LastOp(trace[t]) \in Dispositions
            /\ (LastOp(trace[t]) = "Ack" <=> err[t] = Nil)

\* a targeted message reconciled and acknowledged
C4_Witness ==
    \E t \in Topics :
        /\ pc[t] = "done"
        /\ "PostConfig" \in Ops(trace[t])
        /\ err[t] = Nil
        /\ LastOp(trace[t]) = "Ack"

\* the running call of thread t has had a failing step
StepFailed(t) ==
    \/ idInvalid(ManagedLBID)
    \/ \E i \in DOMAIN trace[t] : trace[t][i].op \in ReconcileSteps /\ ~trace[t][i].ok

\* C5: when a step of updateConfigToLatest fails (empty managed identifier, fetch,
\* merge, CheckConfig or PostConfig) it returns a non-nil error and has not written the
\* last-applied-configuration snapshot; the snapshot changes only in the store step of
\* a call none of whose steps failed.
C5_FailureKeepsSnapshot ==
    /\ [](\A t \in Threads :
            pc[t] = "upd_ret" /\ StepFailed(t) =>
                /\ err[t] # Nil
                /\ "store" \notin Ops(trace[t])
                /\ (t = Main => currentConfig = NoCfg))
    /\ [][currentConfig' # currentConfig =>
            \E t \in Threads : /\ pc[t] = "upd_store"
                               /\ pc'[t] = "upd_ret"
                               /\ ~StepFailed(t)
                               /\ err[t] = Nil]_vars

\* a reader's reconciliation fails at PostConfig while a snapshot is in place
C5_Witness ==
    \E t \in Topics :
        /\ pc[t] = "upd_ret"
        /\ err[t] = Err("PostConfig")
        /\ currentConfig # NoCfg

\* C6: within one reconciliation PostConfig is invoked only right after CheckConfig
\* succeeded for the same document, CheckConfig only after the merge succeeded, the
\* merge only after GetLoadBalancer succeeded; after a failed CheckConfig there is no
\* PostConfig.
C6_CallOrder ==
    \A t \in Threads : \A i \in DOMAIN trace[t] :
        LET c == trace[t][i] IN
        /\ c.op = "PostConfig" =>
            i > 1 /\ trace[t][i - 1] = Call("CheckConfig", c.doc, TRUE)
        /\ c.op = "CheckConfig" =>
            i > 1 /\ trace[t][i - 1] = Call("mergeConfig", NoCfg, TRUE)
        /\ c.op = "mergeConfig" =>
            i > 1 /\ trace[t][i - 1].op = "GetLoadBalancer" /\ trace[t][i - 1].ok
        /\ (c.op = "CheckConfig" /\ ~c.ok) =>
            \A j \in DOMAIN trace[t] : j > i => trace[t][j].op # "PostConfig"

\* a reconciliation that stopped at a failed CheckConfig, and the data plane holds a
\* document an earlier reconciliation posted
C6_Witness ==
    \E t \in Topics :
        /\ pc[t] = "upd_ret"
        /\ LastOp(trace[t]) = "CheckConfig"
        /\ err[t] = Err("CheckConfig")
        /\ applied # NoCfg

\* C7 as claimed: when updateConfigToLatest returns success, the snapshot holds the
\* document this call passed to PostConfig, which is the merge of the base template
\* with the desired state this call fetched; with no ports it is the base template.
C7_SnapshotIsMergedDocument ==
    \A t \in Threads :
        pc[t] = "upd_ret" /\ err[t] = Nil =>
            LET n == Len(trace[t])
                d == CfgString(mergeConfig(BaseCfg, lb[t]).cfg)
            IN /\ n >= 2
               /\ trace[t][n] = Call("store", d, TRUE)
               /\ trace[t][n - 1] = Call("PostConfig", d, TRUE)
               /\ (lb[t].Ports = <<>> => d = CfgString(BaseCfg))
               /\ currentConfig = d

\* C8: with an empty managed identifier updateConfigToLatest returns the
\* invalid-identifier error and calls neither GetLoadBalancer, CheckConfig nor
\* PostConfig.
C8_EmptyIdentifier ==
    ManagedLBID = "" =>
        /\ called \cap ReconcileCalls = {}
        /\ \A t \in Threads :
            /\ pc[t] \notin {"upd_fetch", "upd_merge", "upd_check", "upd_post", "upd_store"}
            /\ pc[t] = "upd_ret" =>
                /\ err[t] = errLoadBalancerIDParamInvalid
                /\ trace[t] = <<>>

C8_Witness ==
    /\ ManagedLBID = ""
    /\ pc[Main] = "upd_ret"
    /\ err[Main] = errLoadBalancerIDParamInvalid

IsPrefix(a, b) == Len(a) <= Len(b) /\ \A i \in 1..Len(a) : a[i] = b[i]

\* the milestones of a Run that reached the listen loop, and of its failures
RunOrders ==
    {<<"gate_ok", "upd_start", "upd_ok", "listen">>,
     <<"gate_ok", "upd_start", "upd_failed">>,
     <<"gate_failed">>,
     <<"collaborator_missing">>}

\* C9: in Run the readiness gate succeeds before the initial reconciliation starts and
\* the initial reconciliation has finished before Subscriber.Listen is called, so no
\* reader handles a message before the initial reconciliation has finished.
C9_RunOrder ==
    /\ \E o \in RunOrders : IsPrefix(runLog, o)
    /\ ("Listen" \in called \/ \E t \in Topics : pc[t] # "off") =>
            /\ IsPrefix(<<"gate_ok", "upd_start">>, runLog)
            /\ Len(runLog) >= 3
            /\ runLog[3] \in {"upd_ok", "upd_failed"}
            /\ pc[Main] \notin UpdPcs
    /\ (pc[Main] \in UpdPcs \ {"upd_begin"} \/ called \cap ReconcileCalls # {}) =>
            IsPrefix(<<"gate_ok">>, runLog)

\* a reader handles a message that was published while the initial reconciliation ran
C9_Witness ==
    \E t \in Topics :
        /\ pc[t] = "handler"
        /\ cur[t] # NoMsg
        /\ runLog = <<"gate_ok", "upd_start", "upd_ok", "listen">>

\* C10: when the readiness check returned false on every configured retry, Run
\* terminates without calling GetLoadBalancer, CheckConfig, PostConfig or Listen.
C10_GateExhausted ==
    "gate_failed" \in Ops([i \in DOMAIN runLog |-> [op |-> runLog[i]]]) =>
        /\ proc = "fatal"
        /\ runLog = <<"gate_failed">>
        /\ called = {"APIIsReady"}
        /\ \A t \in Topics : pc[t] = "off"
        /\ currentConfig = NoCfg /\ applied = NoCfg

C10_Witness ==
    /\ proc = "fatal"
    /\ runLog = <<"gate_failed">>
    /\ gateI = dataPlaneAPIRetryLimit
    /\ called = {"APIIsReady"}


(***************************************************************************)
(* The readiness wait (SpecGate)                                           *)
(***************************************************************************)
Max0(n) == IF n < 0 THEN 0 ELSE n
GateReturned == proc = "gating" /\ gResult # <<>>
PositivePolls == {i \in 1..Len(gPolls) : gPolls[i].ready}

\* C11: waitForDataPlaneReady(retries, interval) calls the readiness check at most
\* `retries` times (never when retries <= 0); a positive result is the last poll made
\* and returns success at once; the not-ready error is returned exactly when the wait
\* has returned after `retries` polls that were all negative.
C11_BoundedPolling ==
    proc = "gating" =>
        /\ Len(gPolls) <= Max0(gRetries)
        /\ \A i \in PositivePolls : i = Len(gPolls) /\ gResult = <<Nil>>
        /\ (gResult = <<ErrDataPlaneNotReady>>) <=>
               (GateReturned /\ Len(gPolls) = Max0(gRetries) /\ PositivePolls = {})

\* the wait returned not-ready after every one of its retries (at least two) was negative
C11_Witness ==
    /\ GateReturned /\ gRetries >= 2 /\ Len(gPolls) = gRetries
    /\ gResult = <<ErrDataPlaneNotReady>>

\* C12 as claimed: once the context is cancelled, the readiness wait that Run uses
\* (Manager.waitForDataPlaneReady) makes no further readiness poll.
C12_NoPollAfterCancel ==
    (proc = "gating" /\ gFn = "Manager.waitForDataPlaneReady") =>
        \A i \in 1..Len(gPolls) : ~gPolls[i].cancelled


(***************************************************************************)
(* Fatal conditions of Run (Spec)                                          *)
(***************************************************************************)
Live == proc \in {"running", "fatal", "returned"}
LastRunLog == IF runLog = <<>> THEN "none" ELSE runLog[Len(runLog)]

\* C13: when the data-plane client, the desired-state client or the subscriber is
\* unset, Run ends fatally at its nil checks: no readiness poll, no GetLoadBalancer,
\* CheckConfig, PostConfig or Listen call is ever made and Run never gets past them.
C13_MissingCollaboratorIsFatal ==
    (Live /\ (~DataPlaneClient \/ ~LBClient \/ ~SubscriberSet)) =>
        /\ called = {}
        /\ \A t \in Threads : trace[t] = <<>>
        /\ pc[Main] \in {"subscribe", "run"}
        /\ runLog \in {<<>>, <<"collaborator_missing">>}
        /\ (runLog # <<>> => proc = "fatal")
        /\ (proc = "fatal" => runLog # <<>>)

\* Run was called with only the desired-state client unset and ended fatally
C13_Witness ==
    /\ Live /\ DataPlaneClient /\ ~LBClient /\ SubscriberSet /\ proc = "fatal"
    /\ runLog = <<"collaborator_missing">>

\* the errors of the fetch, merge, validate and apply steps of updateConfigToLatest
StepErrors ==
    {"GetLoadBalancer", "errFrontendSectionLabelFailure", "errBackendSectionLabelFailure",
     "CheckConfig", "PostConfig"}

\* C14 as claimed: the process ends fatally only for a missing collaborator, an
\* exhausted readiness gate or an unreadable base template; a fetch, merge, validate or
\* apply failure of the initial reconciliation of Run does not end the process.
C14_FatalOnlyAtStartupConditions ==
    (Live /\ proc = "fatal") =>
        ~(LastRunLog = "upd_failed" /\ err[Main].error \in StepErrors)


(***************************************************************************)
(* mergeConfig (SpecMerge)                                                 *)
(***************************************************************************)
Merged == proc = "merging" /\ mOut # <<>>
MergedOK == Merged /\ mOut[1].err = Nil
BaseLabels == DOMAIN BaseCfg.frontends \cup DOMAIN BaseCfg.backends
PortIDsOf(ports) == {ports[i].ID : i \in 1..Len(ports)}
DistinctFresh(ports) ==
    /\ \A i \in 1..Len(ports) : ports[i].ID \notin BaseLabels
    /\ \A i, j \in 1..Len(ports) : i # j => ports[i].ID # ports[j].ID

\* C15: for a desired state whose port identifiers are pairwise distinct and are no
\* section label of the base template, merge succeeds and adds for every port exactly
\* one frontend labelled with the port identifier, holding one bind and one use_backend
\* naming that label, and exactly one backend with that label; it adds no other section
\* and keeps the sections of the base template as they were.
C15_OneFrontendOneBackendPerPort ==
    (Merged /\ DistinctFresh(mLB.Ports)) =>
        LET out == mOut[1].cfg
            ids == PortIDsOf(mLB.Ports)
        IN /\ mOut[1].err = Nil
           /\ DOMAIN out.frontends = DOMAIN BaseCfg.frontends \cup ids
           /\ DOMAIN out.backends = DOMAIN BaseCfg.backends \cup ids
           /\ \A l \in DOMAIN BaseCfg.frontends : out.frontends[l] = BaseCfg.frontends[l]
           /\ \A l \in DOMAIN BaseCfg.backends : out.backends[l] = BaseCfg.backends[l]
           /\ \A l \in ids :
                /\ Len(out.frontends[l].bind) = 1
                /\ out.frontends[l].use_backend = <<l>>
           /\ Len(CfgString(out)) = Len(CfgString(BaseCfg)) + 2 * Len(mLB.Ports)
           /\ \A l \in ids :
                /\ Cardinality({k \in 1..Len(CfgString(out)) :
                        CfgString(out)[k].section = "frontend" /\ CfgString(out)[k].label = l}) = 1
                /\ Cardinality({k \in 1..Len(CfgString(out)) :
                        CfgString(out)[k].section = "backend" /\ CfgString(out)[k].label = l}) = 1

\* two ports with distinct fresh identifiers were merged
C15_Witness ==
    /\ MergedOK /\ Len(mLB.Ports) = 2 /\ DistinctFresh(mLB.Ports)

\* C16 as claimed: the bind of a port's frontend is <address-family>@:<port-number>
\* with the address family of that port and the number of that port.
C16_BindFromPortFamily ==
    MergedOK =>
        \A i \in 1..Len(mLB.Ports) :
            mOut[1].cfg.frontends[mLB.Ports[i].ID].bind =
                <<[family |-> mFamily, port |-> mLB.Ports[i].Number]>>

\* number of origins in the first j pools
RECURSIVE OriginsUpTo(_, _)
OriginsUpTo(pools, j) ==
    IF j = 0 THEN 0 ELSE Len(pools[j].Origins) + OriginsUpTo(pools, j - 1)

OriginIDsOf(p) ==
    {p.Pools[j].Origins[k].ID : <<j, k>> \in
        {x \in (1..Len(p.Pools)) \X (1..MaxNodes) : x[2] <= Len(p.Pools[x[1]].Origins)}}

\* C17: the backend of every port holds exactly one server per origin over all pools
\* of that port (as many as the pools' origin counts add up to), pool by pool and
\* origin by origin in received order, each named by its origin identifier; an origin
\* that only another port has does not appear in it.
C17_ServersPerPort ==
    MergedOK =>
        \A i \in 1..Len(mLB.Ports) :
            LET p == mLB.Ports[i]
                servers == mOut[1].cfg.backends[p.ID].server
            IN /\ Len(servers) = OriginsUpTo(p.Pools, Len(p.Pools))
               /\ \A j \in 1..Len(p.Pools) : \A k \in 1..Len(p.Pools[j].Origins) :
                    LET n == OriginsUpTo(p.Pools, j - 1) + k
                    IN n <= Len(servers) /\ servers[n].Name = p.Pools[j].Origins[k].ID
               /\ \A n \in 1..Len(servers) : servers[n].Name \in OriginIDsOf(p)

\* a port with two non-empty pools, next to a second port, was merged
C17_Witness ==
    /\ MergedOK /\ Len(mLB.Ports) = 2
    /\ Len(mLB.Ports[1].Pools) = 2
    /\ Len(mLB.Ports[1].Pools[1].Origins) = 1
    /\ Len(mLB.Ports[1].Pools[2].Origins) = 1
    /\ mLB.Ports[1].Pools[1].Origins[1].ID # mLB.Ports[1].Pools[2].Origins[1].ID

\* C18: merge omits no origin: an inactive origin gives a server whose address ends in
\* the disabled marker, an active origin a server whose address has no such marker.
C18_InactiveIsDisabled ==
    MergedOK =>
        \A i \in 1..Len(mLB.Ports) :
            LET p == mLB.Ports[i]
                servers == mOut[1].cfg.backends[p.ID].server
            IN \A j \in 1..Len(p.Pools) : \A k \in 1..Len(p.Pools[j].Origins) :
                LET n == OriginsUpTo(p.Pools, j - 1) + k
                    o == p.Pools[j].Origins[k]
                IN /\ n <= Len(servers)
                   /\ servers[n].Name = o.ID
                   /\ servers[n].Address.target = o.Target
                   /\ servers[n].Address.port = o.PortNumber
                   /\ servers[n].Address.checkPort = o.PortNumber
                   /\ servers[n].Address.disabled = ~o.Active

\* a pool holding an inactive origin followed by an active one was merged
C18_Witness ==
    /\ MergedOK /\ Len(mLB.Ports) = 1 /\ Len(mLB.Ports[1].Pools) = 1
    /\ Len(mLB.Ports[1].Pools[1].Origins) = 2
    /\ ~mLB.Ports[1].Pools[1].Origins[1].Active
    /\ mLB.Ports[1].Pools[1].Origins[2].Active

\* the ports whose identifier is taken: by the template or by an earlier port
Offenders(ports) ==
    {i \in 1..Len(ports) :
        \/ ports[i].ID \in BaseLabels
        \/ \E k \in 1..(i - 1) : ports[k].ID = ports[i].ID}

\* C19: when two ports share an identifier, or a port identifier is a frontend or
\* backend label of the base template, merge returns a label error naming the first
\* such identifier and no document, and updateConfigToLatest returns without going on
\* to CheckConfig and PostConfig.
C19_DuplicateLabelFails ==
    (Merged /\ Offenders(mLB.Ports) # {}) =>
        LET first == CHOOSE i \in Offenders(mLB.Ports) :
                        \A k \in Offenders(mLB.Ports) : i <= k
        IN /\ mOut[1].err.error \in
                {"errFrontendSectionLabelFailure", "errBackendSectionLabelFailure"}
           /\ mOut[1].err.label = mLB.Ports[first].ID
           /\ mOut[1].cfg = NoParser
           /\ mNext = "upd_ret"

\* a desired state whose second port repeats the identifier of the first was merged
C19_Witness ==
    /\ Merged /\ Len(mLB.Ports) = 2 /\ mLB.Ports[1].ID = "loadprt-1"
    /\ mLB.Ports[2].ID = "loadprt-1" /\ mOut[1].err.label = "loadprt-1"


(***************************************************************************)
(* Sequences of reconciliations (Spec)                                     *)
(***************************************************************************)
DocLabels(doc, kind) == {doc[k].label : k \in {n \in 1..Len(doc) : doc[n].section = kind}}
PortOf(l, id) == l.Ports[CHOOSE i \in 1..Len(l.Ports) : l.Ports[i].ID = id]

\* the sections of doc come from the base template and from desired state l alone
OnlyFrom(doc, l) ==
    /\ DocLabels(doc, "frontend") = DOMAIN BaseCfg.frontends \cup PortIDsOf(l.Ports)
    /\ DocLabels(doc, "backend") = DOMAIN BaseCfg.backends \cup PortIDsOf(l.Ports)
    /\ \A k \in 1..Len(doc) :
        IF doc[k].label \in PortIDsOf(l.Ports)
        THEN doc[k].section = "backend" =>
                /\ Len(doc[k].body.server) = Len(PoolServers(PortOf(l, doc[k].label).Pools, 1))
                /\ \A n \in 1..Len(doc[k].body.server) :
                     doc[k].body.server[n].Name \in OriginIDsOf(PortOf(l, doc[k].label))
        ELSE doc[k].body = (IF doc[k].section = "frontend"
                            THEN BaseCfg.frontends[doc[k].label]
                            ELSE BaseCfg.backends[doc[k].label])

\* C21: whatever reconciliations came before, every document a reconciliation passes
\* to CheckConfig and PostConfig holds the sections of the base template and the
\* sections of the ports, pools and origins of the desired state that same
\* reconciliation fetched, and nothing that an earlier reconciliation applied.
C21_NoStaleSections ==
    \A t \in Threads : \A i \in DOMAIN trace[t] :
        trace[t][i].op \in {"CheckConfig", "PostConfig", "store"} =>
            OnlyFrom(trace[t][i].doc, lb[t])

\* a reader has applied the document of a desired state without ports while the
\* snapshot still holds the document with a port that the initial reconciliation applied
C21_Witness ==
    \E t \in Topics :
        /\ pc[t] = "upd_store"
        /\ lb[t] = LBEmpty
        /\ applied = CfgString(BaseCfg)
        /\ currentConfig = CfgString(mergeConfig(BaseCfg, LBOne).cfg)


(***************************************************************************)
(* Concurrent reconciliations (SpecConc)                                   *)
(***************************************************************************)
\* every notification delivered so far has been handled, and handled successfully
AllHandled ==
    /\ inventory # AnyState
    /\ ~faults
    /\ published > 0
    /\ \A t \in Topics : pc[t] = "recv" /\ queue[t] = <<>> /\ redeliver[t] = <<>>

\* C22: whenever every notification delivered so far has been handled successfully,
\* the document the data plane runs is the merge of the base template with the
\* desired state the inventory holds now, whichever readers handled the
\* notifications and in whichever order their steps interleaved.
C22_ConvergesToFinalState ==
    AllHandled => applied = DocOf(inventory)

\* C23: no two threads stand at the unsynchronized assignment of m.currentConfig at
\* the same time, and the snapshot never holds a value that no reconciliation wrote.
C23_SafePublication ==
    /\ Cardinality({t \in Threads : pc[t] = "upd_store"}) <= 1
    /\ currentConfig # Torn


(***************************************************************************)
(* Subscriber: Listen, its readers and Subscribe (Spec, SpecLive)          *)
(***************************************************************************)
Subscribed == SeqToSet(changeChannels)
ListenCalled == "Listen" \in called

\* C24: with no handler registered Listen returns the handler-not-registered error
\* at once: no reader is started and no message is received, acknowledged,
\* negatively acknowledged or terminated.
C24_NoHandlerNoReader ==
    /\ [](~msgHandler =>
            /\ \A t \in Topics : pc[t] = "off" /\ cur[t] = NoMsg /\ trace[t] = <<>>
            /\ \A t \in Topics : redeliver[t] = <<>>
            /\ (ListenCalled => proc = "returned" /\ runErr = ErrMsgHandlerNotRegistered))
    /\ [][~msgHandler =>
            \A t \in Topics : Len(queue'[t]) >= Len(queue[t])]_vars

\* Listen has returned the error while a message waits, untouched, in a channel
C24_Witness ==
    /\ ~msgHandler
    /\ ListenCalled
    /\ runErr = ErrMsgHandlerNotRegistered
    /\ \E t \in Topics : Len(queue[t]) = 1 /\ pc[t] = "off"

\* C25: with a handler registered Listen starts one reader for every subscribed
\* channel and returns only when every subscribed channel is closed, every reader has
\* left its loop and no received message is left undisposed, and then with success;
\* once all channels are closed it does return (unless the process ends fatally).
C25_ListenWaitsForReaders ==
    /\ [](msgHandler /\ ListenCalled =>
            /\ Subscribed = Topics
            /\ \A t \in Topics : pc[t] # "off")
    /\ [](msgHandler /\ ListenCalled /\ proc = "returned" =>
            /\ runErr = Nil
            /\ \A t \in Subscribed :
                closed[t] /\ queue[t] = <<>> /\ pc[t] = "exited" /\ cur[t] = NoMsg)
    /\ ((msgHandler /\ ListenCalled /\ \A t \in Subscribed : closed[t])
            ~> (proc \in {"returned", "fatal"}))

\* Listen has returned after a reader handled a message and every channel closed
C25_Witness ==
    /\ msgHandler
    /\ ListenCalled
    /\ proc = "returned"
    /\ runErr = Nil
    /\ published = 1
    /\ \A t \in Topics : queue[t] = <<>> /\ pc[t] = "exited"

\* C26: a failure of the handler is not returned to the caller of Listen and does not
\* stop the reader: the reader disposes of the message, goes back to its channel and
\* leaves its loop only when the channel is closed and drained; Listen returns success.
C26_HandlerFailureContained ==
    /\ [](\A t \in Topics : pc[t] = "exited" => closed[t] /\ queue[t] = <<>>)
    /\ [](msgHandler /\ ListenCalled /\ proc = "returned" => runErr = Nil)
    /\ [][\A t \in Topics :
            /\ (pc[t] = "dispose" /\ err[t] # Nil /\ pc'[t] # pc[t]) =>
                    pc'[t] = "done" /\ proc' = "running" /\ runErr' = Nil
            /\ (pc[t] = "done" /\ err[t] # Nil /\ pc'[t] # pc[t]) => pc'[t] = "recv"]_vars

\* a reader has taken a further delivery after the handler failed on a malformed message
C26_Witness ==
    \E t \in Topics :
        /\ pc[t] = "handler"
        /\ cur[t].payload = Malformed
        /\ cur[t].deliveries = 2

\* reader t has issued its disposition and the call failed
DispositionFailed(t) ==
    /\ pc[t] = "done"
    /\ ~trace[t][Len(trace[t])].ok

\* C27: when the Ack, Nak or Term call itself fails the reader neither leaves its loop
\* nor repeats the call: it goes on to the next message of its channel, and the
\* readers of the other channels are left as they were.
C27_DispositionFailureContained ==
    /\ [](\A t \in Topics :
            DispositionFailed(t) =>
                /\ Count(trace[t], Dispositions) = 1
                /\ LastOp(trace[t]) \in Dispositions)
    /\ [][\A t \in Topics :
            /\ (pc[t] = "dispose" /\ pc'[t] # pc[t]) =>
                /\ pc'[t] = "done"
                /\ \A u \in Topics \ {t} :
                     /\ pc'[u] = pc[u] /\ cur'[u] = cur[u] /\ trace'[u] = trace[u]
                     /\ queue'[u] = queue[u] /\ redeliver'[u] = redeliver[u]
            /\ (DispositionFailed(t) /\ pc'[t] # pc[t]) => pc'[t] = "recv"]_vars

\* a reader has taken again a message whose handler succeeded: its Ack had failed
C27_Witness ==
    \E t \in Topics :
        /\ pc[t] = "handler"
        /\ cur[t].deliveries = 2
        /\ ProcessMsgEntry(ManagedLBID, cur[t].payload) = "drop"

\* C28: a successful Subscribe adds exactly one channel after those already
\* subscribed; a failed one returns the error, is not repeated, and leaves the
\* subscribed channels as they were.
C28_SubscribeOneChannel ==
    /\ [][proc = "returned" => changeChannels' = changeChannels]_vars
    /\ [][pc[Main] = "subscribe" /\ (changeChannels' # changeChannels \/ proc' # proc) =>
        \/ /\ Len(changeChannels') = Len(changeChannels) + 1
           /\ SubSeq(changeChannels', 1, Len(changeChannels)) = changeChannels
           /\ proc' = "running" /\ runErr' = Nil
        \/ /\ changeChannels' = changeChannels
           /\ proc' = "returned" /\ runErr' = Err("subscribe")
           /\ pc' = pc]_vars

\* the second subscription failed and the first channel is still the only one
C28_Witness ==
    /\ runErr = Err("subscribe")
    /\ proc = "returned"
    /\ changeChannels = <<1>>

\* reader t has terminated message i
Terminated(t, i) ==
    /\ pc[t] = "done"
    /\ cur[t].id = i
    /\ LastOp(trace[t]) = "Term"

\* C29: with a limit M > 0 within the deliveries the broker makes, a message whose
\* handling fails on every delivery is eventually terminated, as long as its channel
\* stays open for the redeliveries and the process runs.
C29_FailingMessageTerminated ==
    \A t \in Topics : \A i \in 1..MaxMsgs :
        (/\ maxProcessMsgAttempts \in 1..MaxDeliveries
         /\ pc[t] = "handler"
         /\ cur[t].id = i
         /\ cur[t].payload = Malformed)
            ~> (Terminated(t, i) \/ closed[t] \/ proc # "running")

\* a malformed message terminated on its second delivery
C29_Witness ==
    \E t \in Topics :
        /\ maxProcessMsgAttempts = 2
        /\ Terminated(t, cur[t].id)
        /\ cur[t].payload = Malformed
        /\ cur[t].deliveries = 2
        /\ ~closed[t]

\* reader t holds a message whose event type is none of create, update and delete
OtherEvent(t) ==
    /\ cur[t] # NoMsg
    /\ ~UnmarshalFails(cur[t].payload)
    /\ cur[t].payload.EventType \notin {"create", "update", "delete"}

\* C30: for a message whose event type is none of create, update and delete
\* ProcessMsg returns success without any step of a reconciliation and without
\* writing the snapshot, also when the message is targeted at the managed load balancer.
C30_OtherEventIgnored ==
    /\ [](\A t \in Topics :
            OtherEvent(t) =>
                /\ pc[t] \in {"handler", "dispose", "done"}
                /\ Ops(trace[t]) \cap ReconcileSteps = {}
                /\ (pc[t] \in {"dispose", "done"} => err[t] = Nil)
                /\ (pc[t] = "done" => LastOp(trace[t]) = "Ack"))
    /\ [][\A t \in Topics :
            OtherEvent(t) /\ pc'[t] # pc[t] => currentConfig' = currentConfig]_vars

\* a targeted message of another event type has been acknowledged
C30_Witness ==
    \E t \in Topics :
        /\ OtherEvent(t)
        /\ IsSubject(ManagedLBID, cur[t].payload)
        /\ pc[t] = "done"
        /\ LastOp(trace[t]) = "Ack"


(***************************************************************************)
(* ProcessMsg and the reconciliation it starts (Spec)                      *)
(***************************************************************************)
\* reader t holds a create/update/delete message targeted at the managed load balancer
TargetedMsg(t) ==
    /\ cur[t] # NoMsg
    /\ ~UnmarshalFails(cur[t].payload)
    /\ cur[t].payload.EventType \in {"create", "update", "delete"}
    /\ IsSubject(ManagedLBID, cur[t].payload)

\* the error updateConfigToLatest of thread t returns for the steps it has made
ReconcileError(t) ==
    IF idInvalid(ManagedLBID) THEN errLoadBalancerIDParamInvalid
    ELSE LET tr == trace[t]
             bad == {i \in DOMAIN tr : tr[i].op \in ReconcileSteps /\ ~tr[i].ok} IN
         IF bad = {} THEN Nil
         ELSE LET i == CHOOSE k \in bad : TRUE IN
              IF tr[i].op = "mergeConfig" THEN mergeConfig(BaseCfg, lb[t]).err
              ELSE Err(tr[i].op)

\* C31: for a create, update or delete message targeted at the managed load balancer
\* ProcessMsg runs updateConfigToLatest exactly once (each of its steps at most
\* once) and returns what it returned: nil when every step succeeded, otherwise the
\* error of the step that failed.
C31_HandlerReturnsReconcileResult ==
    /\ [](\A t \in Topics :
            TargetedMsg(t) =>
                /\ pc[t] # "recv"
                /\ \A op \in ReconcileSteps : Count(trace[t], {op}) <= 1
                /\ pc[t] \in {"dispose", "done"} =>
                    /\ Cardinality({i \in DOMAIN trace[t] :
                            trace[t][i].op \in ReconcileSteps /\ ~trace[t][i].ok}) <= 1
                    /\ err[t] = ReconcileError(t)
                    /\ (err[t] = Nil <=> "store" \in Ops(trace[t]))
                    /\ (~idInvalid(ManagedLBID) => Count(trace[t], {"GetLoadBalancer"}) = 1))
    /\ [][\A t \in Topics :
            /\ (TargetedMsg(t) /\ pc[t] = "handler" /\ pc'[t] # pc[t]) => pc'[t] = "upd_begin"
            /\ (pc[t] = "upd_ret" /\ pc'[t] # pc[t]) =>
                    pc'[t] = "dispose" /\ err'[t] = err[t]]_vars

\* a targeted message whose reconciliation failed at PostConfig: the handler returned
\* that error and the message was negatively acknowledged
C31_Witness ==
    \E t \in Topics :
        /\ TargetedMsg(t)
        /\ pc[t] = "done"
        /\ err[t] = Err("PostConfig")
        /\ Count(trace[t], {"GetLoadBalancer"}) = 1
        /\ LastOp(trace[t]) = "Nak"


\* reader t holds a message whose payload does not decode into a ChangeMessage
Undecodable(t) == cur[t] # NoMsg /\ UnmarshalFails(cur[t].payload)

\* C32: when the payload of a message cannot be decoded ProcessMsg returns the decode
\* error at once: the reader goes from the handler straight to the disposition, no
\* step of a reconciliation is made (no GetLoadBalancer, CheckConfig or PostConfig
\* call), and the message is not acknowledged.
C32_DecodeFailureIsError ==
    /\ [](\A t \in Topics :
            Undecodable(t) =>
                /\ pc[t] \in {"handler", "dispose", "done"}
                /\ Ops(trace[t]) \cap ReconcileSteps = {}
                /\ (pc[t] \in {"dispose", "done"} => err[t] = Err("unmarshal"))
                /\ (pc[t] = "done" => LastOp(trace[t]) \in {"Nak", "Term"}))
    /\ [][\A t \in Topics :
            (Undecodable(t) /\ pc[t] = "handler" /\ pc'[t] # pc[t]) =>
                /\ pc'[t] = "dispose"
                /\ called' = called
                /\ currentConfig' = currentConfig /\ applied' = applied]_vars

\* an undecodable message has been negatively acknowledged by a Manager whose
\* identifier is set
C32_Witness ==
    \E t \in Topics :
        /\ Undecodable(t)
        /\ ManagedLBID = "loadbal-A"
        /\ pc[t] = "done"
        /\ err[t] = Err("unmarshal")
        /\ LastOp(trace[t]) = "Nak"


(***************************************************************************)
(* Targeting of ambiguous messages (SpecTargeted)                          *)
(***************************************************************************)
\* the identifier carries the load-balancer kind tag (prefix "loadbal")
IsLoadBalancerID(id) == id \in {"loadbal-A", "loadbal-B"}

\* the load-balancer identifiers among the subject and the additional subjects
LBSubjects(msg) ==
    {id \in {msg.SubjectID} \cup {msg.AdditionalSubjectIDs[i] : i \in 1..Len(msg.AdditionalSubjectIDs)} :
        IsLoadBalancerID(id)}

\* C33: a message that names more than one load-balancer identifier among its subject
\* and additional subjects is never resolved by matching one of them: the targeting
\* check does not answer true for it.
C33_AmbiguousMessageRejected ==
    (tResult # <<>> /\ Cardinality(LBSubjects(tMsg)) > 1) => tResult # <<TRUE>>


(***************************************************************************)
(* NatsClient.Close (SpecNats)                                             *)
(***************************************************************************)
\* C34: a Close that follows a Close which returned no error returns no error either,
\* and the connection is closed after it.
C34_CloseIsRepeatable ==
    \A i \in 2..Len(closeResults) :
        closeResults[i - 1] = Nil => closeResults[i] = Nil /\ natsConn # "open"


(***************************************************************************)
(* Client.CheckConfig (SpecClient)                                         *)
(***************************************************************************)
\* C35: CheckConfig returns nil for status 202, the invalid-configuration error for
\* 400, the unauthorized error for 401, the generic http error for every other
\* status, and the transport error itself when the request failed; the
\* invalid-configuration error is returned for no reply other than a 400.
C35_CheckConfigOutcome ==
    cliResult # <<>> =>
        LET r == cliResult[1] IN
        /\ cliReply.failed => r.error = "transport" /\ r.label = cliReply.cause
        /\ ~cliReply.failed =>
            /\ (cliReply.status = 202 => r = Nil)
            /\ (cliReply.status = 400 => r = ErrDataPlaneConfigInvalid)
            /\ (cliReply.status = 401 => r = ErrDataPlaneHTTPUnauthorized)
            /\ (cliReply.status \notin {202, 400, 401} => r = ErrDataPlaneHTTPError)
        /\ r = ErrDataPlaneConfigInvalid => ~cliReply.failed /\ cliReply.status = 400

\* a 400 reply has been mapped to the invalid-configuration error
C35_Witness ==
    /\ cliReply = Reply(400)
    /\ cliResult = <<ErrDataPlaneConfigInvalid>>


(***************************************************************************)
(* What a reconciliation fetches (Spec)                                    *)
(***************************************************************************)
\* C39: every GetLoadBalancer call, of Run's reconciliation or of a reader's, is made
\* for the managed identifier and not for an identifier of the message in hand; the
\* managed identifier never changes, and every reconciliation starts from the same
\* base template.
C39_FetchesManagedIdentifier ==
    /\ [](\A t \in Threads :
            /\ \A i \in DOMAIN trace[t] :
                 trace[t][i].op = "GetLoadBalancer" => trace[t][i].id = ManagedLBID
            /\ pc[t] = "upd_fetch" => cfg[t] = BaseCfg)
    /\ [][ManagedLBID' = ManagedLBID]_vars

\* a reader has fetched for the managed identifier while handling a message whose
\* subject is another identifier
C39_Witness ==
    \E t \in Topics :
        /\ TargetedMsg(t)
        /\ cur[t].payload.SubjectID # ManagedLBID
        /\ \E i \in DOMAIN trace[t] :
             trace[t][i].op = "GetLoadBalancer" /\ trace[t][i].id = "loadbal-A"


(***************************************************************************)
(* Dispositions of failed messages (Spec)                                  *)
(***************************************************************************)
\* reader t has finished a delivery whose handler failed
HandlerFailed(t) == pc[t] = "done" /\ err[t] # Nil

\* what a failed message receives, as a function of the limit and the delivery count alone
OnFailure(max, deliveries) ==
    IF max # 0 /\ deliveries + 1 > max THEN "Term" ELSE "Nak"

\* the handler errors that are not a failure to decode the payload
TransientErrors ==
    {Err("GetLoadBalancer"), Err("CheckConfig"), Err("PostConfig")}

\* C36: the disposition of a failed message is a function of the configured limit
\* and of the message's delivery count alone: whichever error the handler returned
\* (decode failure, invalid identifier, fetch, merge, validate or apply failure), at
\* the same limit and delivery count the message receives the same one of Nak and Term.
C36_DispositionIgnoresErrorKind ==
    \A t \in Topics :
        HandlerFailed(t) =>
            LastOp(trace[t]) = OnFailure(maxProcessMsgAttempts, cur[t].deliveries)

\* a fetch, validate or apply failure terminated at the delivery at which a malformed
\* payload is (the second of a limit of two)
C36_Witness ==
    \E t \in Topics :
        /\ HandlerFailed(t)
        /\ err[t] \in TransientErrors
        /\ maxProcessMsgAttempts = 2
        /\ cur[t].deliveries = 2
        /\ LastOp(trace[t]) = "Term"

\* C38: with no limit configured (0, the default of the flag) a message whose handler
\* fails is negatively acknowledged at every delivery count and never terminated.
C38_NoLimitNeverTerminates ==
    maxProcessMsgAttempts = 0 =>
        \A t \in Topics :
            /\ "Term" \notin Ops(trace[t])
            /\ HandlerFailed(t) => LastOp(trace[t]) = "Nak"

\* without a limit a failed message is negatively acknowledged at its last delivery
C38_Witness ==
    \E t \in Topics :
        /\ maxProcessMsgAttempts = 0
        /\ HandlerFailed(t)
        /\ cur[t].deliveries = MaxDeliveries
        /\ LastOp(trace[t]) = "Nak"


(***************************************************************************)
(* Readers of different channels (SpecConc)                                *)
(***************************************************************************)
Handling == UpdPcs \cup {"handler", "dispose", "done"}

\* C37: a reader takes a message only when it holds none and the handling of the
\* previous one is over, and it gets there only after Ack, Nak or Term was issued for
\* that message; handlers run at the same time only in readers of different
\* channels, so no more reconciliations are in flight than channels are subscribed.
C37_OneHandlerPerChannel ==
    /\ [][\A t \in Topics :
            /\ (cur'[t] # cur[t] /\ cur'[t] # NoMsg) =>
                    cur[t] = NoMsg /\ pc[t] = "recv" /\ trace[t] = <<>>
            /\ (pc[t] \in Handling /\ pc'[t] = "recv") =>
                    /\ pc[t] = "done"
                    /\ Count(trace[t], Dispositions) = 1
                    /\ LastOp(trace[t]) \in Dispositions]_vars
    /\ [](\A t \in Topics : pc[t] \in Handling <=> cur[t] # NoMsg)
    /\ [](Cardinality({t \in Threads : pc[t] \in UpdPcs}) <= Len(changeChannels))

\* the readers of two channels reconcile at the same time while a further message
\* waits in the channel of one of them
C37_Witness ==
    \E t \in Topics, u \in Topics :
        /\ t # u
        /\ pc[t] \in UpdPcs
        /\ pc[u] \in UpdPcs
        /\ queue[t] # <<>>

(***************************************************************************)
(* Success of the client's readiness wait (SpecGate)                       *)
(***************************************************************************)
\* C40 as claimed: Client.WaitForDataPlaneReady returns success only when one of its
\* readiness polls was positive; a context cancelled before the data plane was seen
\* ready does not yield success.
C40_SuccessMeansObservedReady ==
    (GateReturned /\ gFn = "Client.WaitForDataPlaneReady" /\ gResult = <<Nil>>) =>
        PositivePolls # {}

====
